---- MODULE Spec2Model ----
(***************************************************************************)
(* A model of the particle-text system: the hand-gesture classifier       *)
(* (HandTracker, in its four source variants), the application glue (App)  *)
(* and the particle field (ParticleSystem).                                *)
(*                                                                         *)
(* Numbers.  JavaScript numbers are modelled as fixed-point integers in    *)
(* hundredths: a landmark coordinate 0.37 is 37, a world coordinate 9999   *)
(* is 999900.  Units(n) converts whole units to hundredths.  The input     *)
(* hands are laid out so that every Euclidean distance the classifier      *)
(* takes is a whole number of hundredths, which makes ISqrt exact on them. *)
(***************************************************************************)
EXTENDS Integers, Sequences, FiniteSets, TLC

Units(n) == 100 * n

\* Integer square root by bisection: the r with r*r <= n < (r+1)*(r+1).
RECURSIVE SqrtSearch(_, _, _)
SqrtSearch(n, lo, hi) ==
    IF lo = hi
    THEN lo
    ELSE LET mid == (lo + hi + 1) \div 2
         IN  IF mid * mid <= n
             THEN SqrtSearch(n, mid, hi)
             ELSE SqrtSearch(n, lo, mid - 1)

ISqrt(n) == SqrtSearch(n, 0, 255)

\* ISqrt tabulated over the squared distances of the unit square.
SqrtTable == [n \in 0..20000 |-> ISqrt(n)]

Pt(px, py) == [x |-> px, y |-> py]

Vector3(vx, vy, vz) == [x |-> vx, y |-> vy, z |-> vz]

\* Math.sqrt(Math.pow(a.x - b.x, 2) + Math.pow(a.y - b.y, 2))
Dist(a, b) == SqrtTable[(a.x - b.x) * (a.x - b.x) + (a.y - b.y) * (a.y - b.y)]

(***************************************************************************)
(* Configuration (config.js), thresholds in hundredths.                    *)
(***************************************************************************)
fistThreshold == 15

openThreshold == 28

tipToPipThreshold == 8

maxNumHands == 2

\* new THREE.Vector3(9999, 9999, 0)
Sentinel == Vector3(Units(9999), Units(9999), 0)

(***************************************************************************)
(* The four classifier variants of the source.                             *)
(*   "avgDist"   src/core/HandTracker.js, first class  (four-tip average)  *)
(*   "indexDist" src/core/HandTracker.js, second class (index tip only)    *)
(*   "curl"      unnamed/part_002 (finger-curl fist, open)                 *)
(*   "thumb"     unnamed/part_003 (thumb-aware count, one/two fingers)     *)
(***************************************************************************)
Variants == {"avgDist", "indexDist", "curl", "thumb"}

(***************************************************************************)
(* Detector output.  A hand is a handedness label and the landmarks the    *)
(* classifier reads (of the 21: wrist 0, thumb 2-4, palm 9, and the PIP    *)
(* joint and tip of the four fingers).  Image y grows downwards.           *)
(***************************************************************************)
LandmarkIds == {0, 2, 3, 4, 6, 8, 9, 10, 12, 14, 16, 18, 20}

Tips == <<8, 12, 16, 20>>

Pips == <<6, 10, 14, 18>>

Wrist == Pt(50, 80)

\* A displacement of length d, straight up the image or along a 3-4-5 slant.
Off(dir, d) == IF dir = "up" THEN Pt(0, d) ELSE Pt((3 * d) \div 5, (4 * d) \div 5)

TipAt(dir, d) == Pt(Wrist.x - Off(dir, d).x, Wrist.y - Off(dir, d).y)

\* The PIP joint lies g beyond the tip when the finger is curled (the tip is
\* then lower in the image than the joint), g short of it when extended.
PipAt(dir, d, g, curled) ==
    IF curled
    THEN Pt(TipAt(dir, d).x - Off(dir, g).x, TipAt(dir, d).y - Off(dir, g).y)
    ELSE Pt(TipAt(dir, d).x + Off(dir, g).x, TipAt(dir, d).y + Off(dir, g).y)

ThumbMCP == Pt(Wrist.x + 5, Wrist.y - 5)

ThumbIP == Pt(ThumbMCP.x + 3, ThumbMCP.y - 4)

ThumbPoses == {"out", "in", "short", "far"}

ThumbTip(pose) ==
    CASE pose = "out"   -> Pt(ThumbMCP.x + 6, ThumbMCP.y - 8)
      [] pose = "in"    -> Pt(ThumbMCP.x, ThumbMCP.y - 3)
      [] pose = "short" -> Pt(ThumbMCP.x + 4, ThumbMCP.y)
      [] pose = "far"   -> Pt(ThumbMCP.x - 6, ThumbMCP.y - 8)

MkHand(label, palm, thumb, dir, curled, d, g) ==
    [label |-> label,
     landmarks |->
        [i \in LandmarkIds |->
            CASE i = 0 -> Wrist
              [] i = 2 -> ThumbMCP
              [] i = 3 -> ThumbIP
              [] i = 4 -> ThumbTip(thumb)
              [] i = 9 -> palm
              [] i \in {8, 12, 16, 20} ->
                    LET f == CHOOSE k \in 1..4 : Tips[k] = i
                    IN  TipAt(dir, d[f])
              [] OTHER ->
                    LET f == CHOOSE k \in 1..4 : Pips[k] = i
                    IN  PipAt(dir, d[f], g[f], curled[f])]]

\* Which of index, middle, ring, pinky are curled.
Straight == <<FALSE, FALSE, FALSE, FALSE>>

Curled == <<TRUE, TRUE, TRUE, TRUE>>

FewCurled == { Straight, <<FALSE, FALSE, FALSE, TRUE>>, <<FALSE, FALSE, TRUE, TRUE>> }

MostCurled == { <<FALSE, TRUE, TRUE, TRUE>>, <<TRUE, TRUE, TRUE, FALSE>>, Curled }

CurlPatterns == FewCurled \cup MostCurled

\* Tip-to-wrist distances of the four fingers: averages below, at, between,
\* at and above the two thresholds, the index tip on either side of them.
DistProfiles ==
    { <<10, 10, 10, 10>>, <<15, 13, 15, 17>>, <<13, 15, 15, 17>>,
      <<20, 20, 20, 20>>, <<28, 26, 28, 30>>, <<30, 28, 28, 26>>,
      <<35, 35, 35, 35>> }

Uniform(n) == <<n, n, n, n>>

PalmPoints == { Pt(50, 50), Pt(20, 70), Pt(100, 0) }

\* Tip-to-PIP distances average 0.05, 0.0775 and 0.08 (the curl threshold).
RightHands ==
    { MkHand("Right", Pt(50, 50), "in", "up", c, d, Uniform(5)) :
        c \in FewCurled, d \in DistProfiles }
    \cup
    { MkHand("Right", Pt(50, 50), "in", "up", c, d, g) :
        c \in MostCurled, d \in DistProfiles, g \in {Uniform(5), <<6, 8, 8, 10>>} }
    \cup
    { MkHand("Right", Pt(50, 50), "in", "up", Curled, d, <<7, 8, 8, 8>>) :
        d \in {<<28, 26, 28, 30>>, <<35, 35, 35, 35>>} }
    \cup
    { MkHand("Right", p, "in", "slant", Straight, Uniform(35), Uniform(5)) :
        p \in PalmPoints }
    \cup
    { MkHand("Right", Pt(20, 70), "in", "slant", Curled, Uniform(d), Uniform(g)) :
        d \in {10, 15}, g \in {5, 10} }

LeftHands ==
    { MkHand("Left", Pt(50, 50), t, "up", c, Uniform(20), Uniform(10)) :
        t \in {"out", "in"}, c \in CurlPatterns }
    \cup
    { MkHand("Left", Pt(50, 50), t, "up", c, Uniform(20), Uniform(10)) :
        t \in {"short", "far"}, c \in {Straight, Curled} }
    \cup
    { MkHand("Left", Pt(20, 70), t, "slant", c, Uniform(35), Uniform(5)) :
        t \in {"out", "in"}, c \in {Straight, <<FALSE, TRUE, TRUE, TRUE>>} }

AllHands == RightHands \cup LeftHands

\* The hands that also occur in two-hand frames: an open, a closed and a
\* half-closed right hand at three places, left hands showing 4 (5 with the
\* thumb), 2 and 0 fingers.
PairHands ==
    { MkHand("Right", Pt(50, 50), "in", "slant", Straight, Uniform(35), Uniform(5)),
      MkHand("Right", Pt(20, 70), "in", "slant", Curled, Uniform(10), Uniform(5)),
      MkHand("Right", Pt(100, 0), "in", "up", <<FALSE, FALSE, TRUE, TRUE>>,
             Uniform(20), Uniform(5)),
      MkHand("Left", Pt(50, 50), "in", "up", Straight, Uniform(20), Uniform(10)),
      MkHand("Left", Pt(50, 50), "out", "up", Straight, Uniform(20), Uniform(10)),
      MkHand("Left", Pt(50, 50), "in", "up", <<FALSE, FALSE, TRUE, TRUE>>,
             Uniform(20), Uniform(10)),
      MkHand("Left", Pt(50, 50), "in", "up", Curled, Uniform(20), Uniform(10)) }

\* results: multiHandLandmarks and multiHandedness are parallel arrays, both
\* absent (defined = FALSE) or both present, with at most maxNumHands hands.
NoResults == [defined |-> FALSE, hands |-> << >>]

\* A frame holding the one hand h.
Single(h) == [defined |-> TRUE, hands |-> <<h>>]

Frames ==
    { NoResults, [defined |-> TRUE, hands |-> << >>] }
    \cup { [defined |-> TRUE, hands |-> <<h>>] : h \in AllHands }
    \cup { [defined |-> TRUE, hands |-> <<h1, h2>>] : h1 \in PairHands, h2 \in PairHands }

WindowSizes ==
    { [innerWidth |-> 1920, innerHeight |-> 1080],
      [innerWidth |-> 800, innerHeight |-> 600] }

VARIABLES
    variant,           \* which HandTracker class is loaded
    window,            \* [innerWidth, innerHeight]
    results,           \* the detector results last handed to onResults
    interactionState,  \* HandTracker.interactionState
    onResultsCallback, \* whether the tracker was given App's callback
    errors,            \* ErrorHandler.errors of the tracker
    lastOp,            \* the handler that ran last
    currentTheme,      \* App.currentTheme, as its key in THEMES
    isRunning,         \* App.isRunning
    frameCount,        \* PerformanceMonitor.frameCount
    currentPositions,  \* ParticleSystem.currentPositions
    velocities,        \* ParticleSystem.velocities
    targetPositions,   \* ParticleSystem.targetPositions
    positions,         \* geometry.attributes.position.array
    colors,            \* geometry.attributes.color.array
    generateCalls,     \* generateTextParticles calls made by the last handler
    task,              \* the handler the event loop is running, or "idle"
    cursor,            \* the loop index of the running handler
    pending,           \* the targets the last generateTextParticles call computed
    lastText,          \* the text the last generateTextParticles call was given
    updateCalls,       \* the update passes run so far
    animationFrameId,  \* App.animationFrameId, 0 for null
    frameRequests,     \* the requestAnimationFrame callbacks not yet run or cancelled
    appErrors,         \* ErrorHandler.errors of the App
    setup,             \* how the detector and camera setup went
    initResult,        \* what HandTracker.init() and App.init() resolved to
    fps,               \* PerformanceMonitor.fps
    lastTime,          \* PerformanceMonitor.lastTime
    frameTimes,        \* PerformanceMonitor.frameTimes
    now                \* the clock of Date and performance.now(), in milliseconds

trackerVars == <<variant, window, results, interactionState, onResultsCallback, errors>>

appVars == <<currentTheme, isRunning, frameCount>>

fieldVars == <<currentPositions, velocities, targetPositions, positions, colors>>

loopVars == <<task, cursor>>

callVars == <<generateCalls, pending, lastText, updateCalls>>

lifeVars == <<animationFrameId, frameRequests, appErrors, setup, initResult>>

monitorVars == <<fps, lastTime, frameTimes, now>>

vars == <<trackerVars, lastOp, appVars, fieldVars, loopVars, callVars, lifeVars,
          monitorVars>>

(***************************************************************************)
(* HandTracker                                                             *)
(***************************************************************************)
\* constructor: interactionState
InitialInteractionState ==
    [mode |-> 1, rightHandPos |-> Sentinel, rightHandAction |-> "neutral"]

B2N(b) == IF b THEN 1 ELSE 0

\* Mutant: the thumb-aware variant keeps the base bound, fingers <= 3.
modeMax_AlwaysThree(v) == 3

\* The largest finger count processLeftHand commits as a mode.
modeMax(v) == IF v = "thumb" THEN 5 ELSE 3

\* thumbExtended (thumb-aware variant): tip right of the IP joint and farther
\* from the MCP joint than the IP joint is.
thumbExtended(lm) ==
    /\ lm[4].x > lm[3].x
    /\ Dist(lm[4], lm[2]) > Dist(lm[3], lm[2])

\* The finger count of processLeftHand.
fingers(v, lm) ==
    B2N(v = "thumb" /\ thumbExtended(lm))
    + B2N(lm[8].y < lm[6].y)
    + B2N(lm[12].y < lm[10].y)
    + B2N(lm[16].y < lm[14].y)
    + B2N(lm[20].y < lm[18].y)

\* Mutant: the count is committed without the range test.
processLeftHand_NoRangeCheck(v, st, lm) ==
    [st EXCEPT !.mode = fingers(v, lm)]

processLeftHand(v, st, lm) ==
    LET n == fingers(v, lm)
    IN  IF n >= 1 /\ n <= modeMax(v) /\ st.mode # n
        THEN [st EXCEPT !.mode = n]
        ELSE st

\* Mutant: the x axis is not mirrored.
handPosition_NotMirrored(win, lm) ==
    Vector3(lm[9].x * win.innerWidth - Units(win.innerWidth) \div 2,
            -(lm[9].y * win.innerHeight - Units(win.innerHeight) \div 2),
            0)

\* x = (1 - lm[9].x) * width - width / 2,  y = -(lm[9].y * height - height / 2)
handPosition(win, lm) ==
    Vector3((Units(1) - lm[9].x) * win.innerWidth - Units(win.innerWidth) \div 2,
            -(lm[9].y * win.innerHeight - Units(win.innerHeight) \div 2),
            0)

curledFingers(lm) ==
    B2N(lm[8].y > lm[6].y) + B2N(lm[12].y > lm[10].y)
    + B2N(lm[16].y > lm[14].y) + B2N(lm[20].y > lm[18].y)

\* Four times avgDist, the average tip-to-wrist distance (kept times four so
\* that the quarter hundredths of the average are not lost).
avgDist4(lm) ==
    Dist(lm[8], lm[0]) + Dist(lm[12], lm[0]) + Dist(lm[16], lm[0]) + Dist(lm[20], lm[0])

\* Four times avgTipToPipDist.
avgTipToPipDist4(lm) ==
    Dist(lm[8], lm[6]) + Dist(lm[12], lm[10]) + Dist(lm[16], lm[14]) + Dist(lm[20], lm[18])

\* Mutant: the curl test and the distance test joined by && instead of ||.
isFist_Conjunction(curled, avgTP, avgD) ==
    /\ curled >= 3 /\ avgTP < 4 * tipToPipThreshold
    /\ avgD < 4 * fistThreshold

\* Mutant: open is decided by the distance alone.
isOpen_DistanceOnly(curled, avgD) == avgD > 4 * openThreshold

\* Mutant: open needs all four fingers extended.
isOpen_NoneCurled(curled, avgD) == curled = 0 /\ avgD > 4 * openThreshold

\* isFist, isOpen, isOneFinger and isTwoFingers over the locals of
\* processRightHand: curled = curledFingers, avgD = 4 * avgDist,
\* avgTP = 4 * avgTipToPipDist.
isFist(curled, avgTP, avgD) ==
    \/ curled >= 3 /\ avgTP < 4 * tipToPipThreshold
    \/ avgD < 4 * fistThreshold

isOpen(curled, avgD) == curled <= 1 /\ avgD > 4 * openThreshold

isOneFinger(curled, lm) ==
    /\ 4 - curled = 1
    /\ lm[8].y < lm[6].y
    /\ lm[12].y > lm[10].y /\ lm[16].y > lm[14].y /\ lm[20].y > lm[18].y

isTwoFingers(curled, avgD) == 4 - curled = 2 /\ avgD > 4 * openThreshold

\* Mutant: the threshold comparisons are <= and >= instead of < and >.
handAction_NonStrict(v, lm) ==
    LET curled == curledFingers(lm)
        avgD == avgDist4(lm)
        avgTP == avgTipToPipDist4(lm)
        dist == Dist(lm[8], lm[0])
        fist == \/ curled >= 3 /\ avgTP < 4 * tipToPipThreshold
                \/ avgD <= 4 * fistThreshold
    IN  CASE v = "avgDist" ->
                IF avgD <= 4 * fistThreshold THEN "fist"
                ELSE IF avgD >= 4 * openThreshold THEN "open"
                ELSE "neutral"
          [] v = "indexDist" ->
                IF dist <= fistThreshold THEN "fist"
                ELSE IF dist >= openThreshold THEN "open"
                ELSE "neutral"
          [] v = "curl" ->
                IF fist THEN "fist"
                ELSE IF curled <= 1 /\ avgD >= 4 * openThreshold THEN "open"
                ELSE "neutral"
          [] v = "thumb" ->
                IF fist THEN "fist"
                ELSE IF 4 - curled = 2 /\ avgD >= 4 * openThreshold THEN "twoFingers"
                ELSE IF isOneFinger(curled, lm) THEN "oneFinger"
                ELSE "neutral"

\* Mutant: the one-finger gesture is stored under another name.
handAction_Renamed(v, lm) ==
    LET curled == curledFingers(lm)
        avgD == avgDist4(lm)
        avgTP == avgTipToPipDist4(lm)
        dist == Dist(lm[8], lm[0])
    IN  CASE v = "avgDist" ->
                IF avgD < 4 * fistThreshold THEN "fist"
                ELSE IF avgD > 4 * openThreshold THEN "open"
                ELSE "neutral"
          [] v = "indexDist" ->
                IF dist < fistThreshold THEN "fist"
                ELSE IF dist > openThreshold THEN "open"
                ELSE "neutral"
          [] v = "curl" ->
                IF isFist(curled, avgTP, avgD) THEN "fist"
                ELSE IF isOpen(curled, avgD) THEN "open"
                ELSE "neutral"
          [] v = "thumb" ->
                IF isFist(curled, avgTP, avgD) THEN "fist"
                ELSE IF isTwoFingers(curled, avgD) THEN "twoFingers"
                ELSE IF isOneFinger(curled, lm) THEN "index"
                ELSE "neutral"


\* Mutant: the one-finger test comes before the fist test.
handAction_OneFingerFirst(v, lm) ==
    LET curled == curledFingers(lm)
        avgD == avgDist4(lm)
        avgTP == avgTipToPipDist4(lm)
        dist == Dist(lm[8], lm[0])
    IN  CASE v = "avgDist" ->
                IF avgD < 4 * fistThreshold THEN "fist"
                ELSE IF avgD > 4 * openThreshold THEN "open"
                ELSE "neutral"
          [] v = "indexDist" ->
                IF dist < fistThreshold THEN "fist"
                ELSE IF dist > openThreshold THEN "open"
                ELSE "neutral"
          [] v = "curl" ->
                IF isFist(curled, avgTP, avgD) THEN "fist"
                ELSE IF isOpen(curled, avgD) THEN "open"
                ELSE "neutral"
          [] v = "thumb" ->
                IF isOneFinger(curled, lm) THEN "oneFinger"
                ELSE IF isFist(curled, avgTP, avgD) THEN "fist"
                ELSE IF isTwoFingers(curled, avgD) THEN "twoFingers"
                ELSE "neutral"

\* The action processRightHand stores, per variant.
handAction(v, lm) ==
    LET curled == curledFingers(lm)
        avgD == avgDist4(lm)
        avgTP == avgTipToPipDist4(lm)
        dist == Dist(lm[8], lm[0])
    IN  CASE v = "avgDist" ->
                IF avgD < 4 * fistThreshold THEN "fist"
                ELSE IF avgD > 4 * openThreshold THEN "open"
                ELSE "neutral"
          [] v = "indexDist" ->
                IF dist < fistThreshold THEN "fist"
                ELSE IF dist > openThreshold THEN "open"
                ELSE "neutral"
          [] v = "curl" ->
                IF isFist(curled, avgTP, avgD) THEN "fist"
                ELSE IF isOpen(curled, avgD) THEN "open"
                ELSE "neutral"
          [] v = "thumb" ->
                IF isFist(curled, avgTP, avgD) THEN "fist"
                ELSE IF isTwoFingers(curled, avgD) THEN "twoFingers"
                ELSE IF isOneFinger(curled, lm) THEN "oneFinger"
                ELSE "neutral"

processRightHand(v, win, st, lm) ==
    [st EXCEPT !.rightHandPos = handPosition(win, lm),
               !.rightHandAction = handAction(v, lm)]

\* Mutant: the handedness branch is lost and every hand takes both paths.
processHand_IgnoresLabel(v, win, st, hand) ==
    processRightHand(v, win, processLeftHand(v, st, hand.landmarks), hand.landmarks)

\* One iteration of the loop of processResults.
processHand(v, win, st, hand) ==
    IF hand.label # "Right"
    THEN processLeftHand(v, st, hand.landmarks)
    ELSE processRightHand(v, win, st, hand.landmarks)

\* Mutant: the loop runs from the last hand down to the first.
RECURSIVE processHands_Backwards(_, _, _, _, _)
processHands_Backwards(v, win, st, hands, index) ==
    IF index > Len(hands)
    THEN st
    ELSE processHands_Backwards(v, win,
            processHand(v, win, st, hands[Len(hands) + 1 - index]), hands, index + 1)

RECURSIVE processHands(_, _, _, _, _)
processHands(v, win, st, hands, index) ==
    IF index > Len(hands)
    THEN st
    ELSE processHands(v, win, processHand(v, win, st, hands[index]), hands, index + 1)

\* Mutant: the reset leaves the position of the previous frame in place.
resetState_KeepsPosition(st) ==
    [st EXCEPT !.rightHandAction = "neutral"]

\* Mutant: the reset also returns the mode to its initial value.
resetState_ResetsMode(st) ==
    [st EXCEPT !.rightHandPos = Sentinel, !.rightHandAction = "neutral", !.mode = 1]

\* Mutant: the reset leaves the action of the frame before.
resetState_KeepsAction(st) ==
    [st EXCEPT !.rightHandPos = Sentinel]

\* The reset that opens processResults.
resetState(st) ==
    [st EXCEPT !.rightHandPos = Sentinel, !.rightHandAction = "neutral"]

processResults(v, win, st, res) ==
    IF ~res.defined
    THEN resetState(st)
    ELSE processHands(v, win, resetState(st), res.hands, 1)

(***************************************************************************)
(* ParticleSystem.  Coordinates and velocities are fixed-point hundredths  *)
(* of a world unit; a product or quotient is cut to whole hundredths.      *)
(***************************************************************************)
returnSpeed == 12

friction == 92

physicsInfluenceRadius == 50000

forceMultiplier == 15000

Abs(a) == IF a < 0 THEN -a ELSE a

Sign(a) == IF a < 0 THEN -1 ELSE 1

\* a * b for fixed-point a and b (|a| is split so that no product overflows).
MulFix(a, b) ==
    Sign(a) * Sign(b) *
        ((Abs(a) \div 100) * Abs(b) + ((Abs(a) % 100) * Abs(b)) \div 100)

\* a / b for fixed-point a and b.
DivFix(a, b) == Sign(a) * Sign(b) * ((Abs(a) * 100) \div Abs(b))

\* Mutant: the branches are not exclusive: after the fist branch the depth
\* bias of the open branch is added as well.
handForce_FallsThrough(p, v, rhPos, rhAction) ==
    LET dx == p.x - rhPos.x
        dy == p.y - rhPos.y
        dz == p.z - rhPos.z
        distSq == MulFix(dx, dx) + MulFix(dy, dy) + MulFix(dz, dz) + Units(100)
        forceMagnitude == DivFix(Units(forceMultiplier), distSq)
    IN  IF distSq < Units(physicsInfluenceRadius)
        THEN CASE rhAction = "fist" ->
                    Vector3(v.x - MulFix(MulFix(dx, forceMagnitude), 8) + MulFix(dy, 5),
                            v.y - MulFix(MulFix(dy, forceMagnitude), 8) - MulFix(dx, 5),
                            v.z - MulFix(MulFix(dz, forceMagnitude), 8) + Units(2))
               [] rhAction = "open" ->
                    Vector3(v.x + MulFix(MulFix(dx, forceMagnitude), 15),
                            v.y + MulFix(MulFix(dy, forceMagnitude), 15),
                            v.z + MulFix(MulFix(dz, forceMagnitude), 15) + Units(2))
               [] OTHER ->
                    Vector3(v.x + MulFix(MulFix(dx, forceMagnitude), 2),
                            v.y + MulFix(MulFix(dy, forceMagnitude), 2),
                            v.z + MulFix(MulFix(dz, forceMagnitude), 2))
        ELSE v

\* The hand-interaction block of update: v after the force of a hand at
\* rhPos doing rhAction on a particle at p.
handForce(p, v, rhPos, rhAction) ==
    LET dx == p.x - rhPos.x
        dy == p.y - rhPos.y
        dz == p.z - rhPos.z
        distSq == MulFix(dx, dx) + MulFix(dy, dy) + MulFix(dz, dz) + Units(100)
        forceMagnitude == DivFix(Units(forceMultiplier), distSq)
    IN  IF distSq < Units(physicsInfluenceRadius)
        THEN CASE rhAction = "fist" ->
                    Vector3(v.x - MulFix(MulFix(dx, forceMagnitude), 8) + MulFix(dy, 5),
                            v.y - MulFix(MulFix(dy, forceMagnitude), 8) - MulFix(dx, 5),
                            v.z - MulFix(MulFix(dz, forceMagnitude), 8))
               [] rhAction = "open" ->
                    Vector3(v.x + MulFix(MulFix(dx, forceMagnitude), 15),
                            v.y + MulFix(MulFix(dy, forceMagnitude), 15),
                            v.z + MulFix(MulFix(dz, forceMagnitude), 15) + Units(2))
               [] OTHER ->
                    Vector3(v.x + MulFix(MulFix(dx, forceMagnitude), 2),
                            v.y + MulFix(MulFix(dy, forceMagnitude), 2),
                            v.z + MulFix(MulFix(dz, forceMagnitude), 2))
        ELSE v

\* Mutant: the velocity is not multiplied by the friction.
updateParticle_NoFriction(p, v, t, n, rhPos, rhAction) ==
    LET v1 == Vector3(v.x + MulFix(t.x - p.x, returnSpeed) + n.x,
                      v.y + MulFix(t.y - p.y, returnSpeed) + n.y,
                      v.z + MulFix(t.z - p.z, returnSpeed) + n.z)
        v2 == IF rhPos.x # Units(9999)
              THEN handForce(p, v1, rhPos, rhAction)
              ELSE v1
    IN  [p |-> Vector3(p.x + v2.x, p.y + v2.y, p.z + v2.z), v |-> v2]

\* Mutant: the friction is applied to the old velocity, before the forces
\* are added.
updateParticle_FrictionFirst(p, v, t, n, rhPos, rhAction) ==
    LET v0 == Vector3(MulFix(v.x, friction), MulFix(v.y, friction), MulFix(v.z, friction))
        v1 == Vector3(v0.x + MulFix(t.x - p.x, returnSpeed) + n.x,
                      v0.y + MulFix(t.y - p.y, returnSpeed) + n.y,
                      v0.z + MulFix(t.z - p.z, returnSpeed) + n.z)
        v2 == IF rhPos.x # Units(9999)
              THEN handForce(p, v1, rhPos, rhAction)
              ELSE v1
    IN  [p |-> Vector3(p.x + v2.x, p.y + v2.y, p.z + v2.z), v |-> v2]

\* Mutant: the hand block is guarded by the action instead of the position.
updateParticle_GuardOnAction(p, v, t, n, rhPos, rhAction) ==
    LET v1 == Vector3(v.x + MulFix(t.x - p.x, returnSpeed) + n.x,
                      v.y + MulFix(t.y - p.y, returnSpeed) + n.y,
                      v.z + MulFix(t.z - p.z, returnSpeed) + n.z)
        v2 == IF rhAction # "neutral"
              THEN handForce(p, v1, Vector3(0, 0, 0), rhAction)
              ELSE v1
        v3 == Vector3(MulFix(v2.x, friction), MulFix(v2.y, friction), MulFix(v2.z, friction))
    IN  [p |-> Vector3(p.x + v3.x, p.y + v3.y, p.z + v3.z), v |-> v3]

\* The body of update's loop for one particle at p with velocity v and
\* target t, the three Math.random() noise terms being n: the particle's
\* new position and velocity.
updateParticle(p, v, t, n, rhPos, rhAction) ==
    LET v1 == Vector3(v.x + MulFix(t.x - p.x, returnSpeed) + n.x,
                      v.y + MulFix(t.y - p.y, returnSpeed) + n.y,
                      v.z + MulFix(t.z - p.z, returnSpeed) + n.z)
        v2 == IF rhPos.x # Units(9999)
              THEN handForce(p, v1, rhPos, rhAction)
              ELSE v1
        v3 == Vector3(MulFix(v2.x, friction), MulFix(v2.y, friction), MulFix(v2.z, friction))
    IN  [p |-> Vector3(p.x + v3.x, p.y + v3.y, p.z + v3.z), v |-> v3]

\* Math.sqrt(n) for a fixed-point n up to handInfluenceRadius squared.
SqrtFix(n) == SqrtSearch(n * 100, 0, 25000)

\* Math.sin(a) for a in hundredths of a radian, by Bhaskara's rational
\* approximation on each half period: within [-1, 1], and exactly 0, 1
\* and -1 at the multiples of pi / 2 (pi taken as 3.14).
Sin(a) ==
    LET m == a % 628
        h == IF m <= 314 THEN m ELSE m - 314
        b == (1600 * h * (314 - h)) \div (5 * 314 * 314 - 4 * h * (314 - h))
    IN  IF m <= 314 THEN b ELSE -b

handInfluenceRadius == 250

\* new THREE.Color(hex), from the three bytes of hex.
Color(r, g, b) == [r |-> (100 * r) \div 255, g |-> (100 * g) \div 255, b |-> (100 * b) \div 255]

\* createThemes(): color1 and color2 of each theme.
ThemeColors(k) ==
    CASE k = 1 -> [color1 |-> Color(0, 255, 255),   color2 |-> Color(136, 0, 255)]
      [] k = 2 -> [color1 |-> Color(255, 221, 0),   color2 |-> Color(255, 51, 0)]
      [] k = 3 -> [color1 |-> Color(255, 0, 85),    color2 |-> Color(255, 187, 221)]
      [] k = 4 -> [color1 |-> Color(170, 0, 255),   color2 |-> Color(255, 0, 170)]
      [] k = 5 -> [color1 |-> Color(0, 255, 136),   color2 |-> Color(136, 255, 0)]

\* THREE.Color.lerp: c += (d - c) * alpha on each channel.
lerp(c, d, alpha) ==
    [r |-> c.r + MulFix(d.r - c.r, alpha),
     g |-> c.g + MulFix(d.g - c.g, alpha),
     b |-> c.b + MulFix(d.b - c.b, alpha)]

\* Mutant: the channel is stored without Math.min.
storeChannel_NoClamp(c) == MulFix(c, 120)

\* colors[i * 3 + k] = Math.min(1.0, tempColor.k * 1.2)
storeChannel(c) == IF MulFix(c, 120) < 100 THEN MulFix(c, 120) ELSE 100

\* The colour section of update's loop for a particle at p: the three
\* channels stored in the colour buffer.
particleColor(p, rhPos, theme, time) ==
    LET mixRatio == (Sin(MulFix(time, 150) + (p.x * 15) \div 10000) + 100) \div 2
        base == lerp(ThemeColors(theme).color1, ThemeColors(theme).color2, mixRatio)
        dx == p.x - rhPos.x
        dy == p.y - rhPos.y
        dz == p.z - rhPos.z
        distSq == MulFix(dx, dx) + MulFix(dy, dy) + MulFix(dz, dz)
        near == rhPos.x # Units(9999)
                    /\ distSq < Units(handInfluenceRadius * handInfluenceRadius)
        influence == 100 - DivFix(SqrtFix(distSq), Units(handInfluenceRadius))
        lit == lerp(base, Color(255, 255, 255), MulFix(influence, 90))
        tempColor == IF near
                     THEN [r |-> MulFix(lit.r, 120), g |-> MulFix(lit.g, 120),
                           b |-> MulFix(lit.b, 120)]
                     ELSE base
    IN  <<storeChannel(tempColor.r), storeChannel(tempColor.g), storeChannel(tempColor.b)>>

\* Mutant: the buffer is filled from the last particle down.
Buffer_Reversed(ps) ==
    [k \in 1..(3 * Len(ps)) |->
        LET q == ps[Len(ps) - ((k - 1) \div 3)]
        IN  CASE (k - 1) % 3 = 0 -> q.x
              [] (k - 1) % 3 = 1 -> q.y
              [] OTHER -> q.z]

\* positions[i * 3], positions[i * 3 + 1], positions[i * 3 + 2] for each i.
Buffer(ps) ==
    [k \in 1..(3 * Len(ps)) |->
        LET q == ps[(k - 1) \div 3 + 1]
        IN  CASE (k - 1) % 3 = 0 -> q.x
              [] (k - 1) % 3 = 1 -> q.y
              [] OTHER -> q.z]

(***************************************************************************)
(* Bounds of the particle field and of its random inputs.                  *)
(***************************************************************************)
NumParticles == 2

MaxFrames == 2

Particles == 1..NumParticles

\* createGeometry: (Math.random() - 0.5) * 1500, * 1500 and * 1000 for
\* each particle.  Two draws of the whole array.
InitialPositions ==
    { [i \in Particles |->
          IF i % 2 = 1 THEN Vector3(Units(100), Units(50), 0)
          ELSE Vector3(Units(-600), Units(400), Units(-300))],
      [i \in Particles |-> Vector3(Units(-200 * i), Units(300), Units(40 * i))] }

\* update: (Math.random() - 0.5) * 0.8 on each axis of each particle, in
\* [-0.4, 0.4).  Two draws of a whole frame's noise.
NoiseFields ==
    { [i \in Particles |-> Vector3(0, 0, 0)],
      [i \in Particles |->
          IF i % 2 = 1 THEN Vector3(39, -40, 20) ELSE Vector3(-40, 39, -1)] }

\* The clock's reading in the frame after n frames: a frame every 1.05 s.
getElapsedTime(n) == 105 * n

\* ParticleSystem.update(time, theme, interactionState), the Math.random()
\* noise of the pass being noise: the arrays and the buffers it leaves.
\* A JavaScript array of one entry per particle, as a sequence.
Array(f) == SubSeq(f, 1, NumParticles)

update(time, theme, st, noise) ==
    LET next == Array([i \in Particles |->
                    updateParticle(currentPositions[i], velocities[i],
                                   targetPositions[i], noise[i],
                                   st.rightHandPos, st.rightHandAction)])
        color == Array([i \in Particles |->
                    particleColor(currentPositions[i], st.rightHandPos, theme, time)])
    IN  [currentPositions |-> [i \in Particles |-> next[i].p],
         velocities |-> [i \in Particles |-> next[i].v],
         positions |-> Buffer([i \in Particles |-> next[i].p]),
         colors |-> [k \in 1..(3 * NumParticles) |->
                        color[(k - 1) \div 3 + 1][((k - 1) % 3) + 1]]]

(***************************************************************************)
(* Text sampling (generateTextParticles).  The canvas raster of a text is  *)
(* the list of its foreground pixels on the sampling grid, in scan order.  *)
(***************************************************************************)
canvasWidth == 1000

canvasHeight == 400

ThemeText(k) ==
    CASE k = 1 -> "Hello"
      [] k = 2 -> "HaiDang"
      [] k = 3 -> "I Love You"
      [] k = 4 -> "Awesome"
      [] k = 5 -> "Welcome"

Raster(text) ==
    CASE text = "Hello"      -> << Pt(460, 180), Pt(540, 220) >>
      [] text = "HaiDang"    -> << Pt(500, 200) >>
      [] text = "I Love You" -> << >>
      [] text = "Awesome"    -> << Pt(400, 200), Pt(600, 200), Pt(500, 100), Pt(500, 300) >>
      [] text = "Welcome"    -> << Pt(0, 0), Pt(996, 396), Pt(500, 200) >>

\* validPoints: (x - W / 2) * 2.2 and -(y - H / 2) * 2.2 of each pixel.
validPoints(text) ==
    [k \in 1..Len(Raster(text)) |->
        Pt(((Units(Raster(text)[k].x) - (Units(canvasWidth) \div 2)) * 22) \div 10,
           -(((Units(Raster(text)[k].y) - (Units(canvasHeight) \div 2)) * 22) \div 10))]

\* Mutant: the sort may copy a point over another one.
Shuffles_WithRepeats(pts) ==
    { [k \in 1..Len(pts) |-> pts[f[k]]] : f \in [1..Len(pts) -> 1..Len(pts)] }

\* The orders validPoints.sort(() => Math.random() - 0.5) can leave.
Shuffles(pts) ==
    { [k \in 1..Len(pts) |-> pts[f[k]]] :
        f \in { g \in [1..Len(pts) -> 1..Len(pts)] :
                    \A j, k \in 1..Len(pts) : j # k => g[j] # g[k] } }

\* Math.cos(angle) and Math.sin(angle) for the two angles drawn.
RingAngles == << [cos |-> -60, sin |-> 80], [cos |-> 0, sin |-> -100] >>

\* Mutant: r = Math.random() * 500, without the inner radius.
ringTarget_NoInnerRadius(angle, randomR, randomZ) ==
    LET r == MulFix(randomR, Units(500))
    IN  Vector3(MulFix(angle.cos, r), MulFix(angle.sin, r),
                MulFix(randomZ - 50, Units(400)))

\* targetPositions[i].set(Math.cos(angle) * r, Math.sin(angle) * r,
\* (Math.random() - 0.5) * 400) with r = 500 + Math.random() * 500, the
\* two Math.random() draws being randomR and randomZ, in [0, 1).
ringTarget(angle, randomR, randomZ) ==
    LET r == Units(500) + MulFix(randomR, Units(500))
    IN  Vector3(MulFix(angle.cos, r), MulFix(angle.sin, r),
                MulFix(randomZ - 50, Units(400)))

\* The synthetic targets of the particles left over.  One draw of the
\* whole ring, at the ends of the ranges of Math.random().
RingTargets ==
    { [i \in Particles |->
          IF i % 2 = 1 THEN ringTarget(RingAngles[1], 0, 87)
          ELSE ringTarget(RingAngles[2], 99, 0)] }

\* Mutant: the last sampled point is not used (i < validPoints.length - 1).
generateTextParticles_OffByOne(text) ==
    { [i \in 1..NumParticles |->
          IF i < Len(pts) THEN Vector3(pts[i].x, pts[i].y, 0) ELSE ring[i]] :
        pts \in Shuffles(validPoints(text)), ring \in RingTargets }

\* The target arrays generateTextParticles(text) can leave.
generateTextParticles(text) ==
    { [i \in Particles |->
          IF i <= Len(pts) THEN Vector3(pts[i].x, pts[i].y, 0) ELSE ring[i]] :
        pts \in Shuffles(validPoints(text)), ring \in RingTargets }

(***************************************************************************)
(* Handlers                                                                *)
(***************************************************************************)
\* The frames the detector delivers while the application runs: none, a
\* right hand open over the middle of the view or closed beside it, a left
\* hand showing two or three fingers, and both hands together.
AppFrames ==
    { NoResults,
      Single(MkHand("Right", Pt(50, 50), "in", "slant", Straight, Uniform(35), Uniform(5))),
      Single(MkHand("Right", Pt(20, 70), "in", "slant", Curled, Uniform(10), Uniform(5))),
      Single(MkHand("Left", Pt(50, 50), "in", "up", <<FALSE, FALSE, TRUE, TRUE>>,
                    Uniform(20), Uniform(10))),
      Single(MkHand("Left", Pt(50, 50), "in", "up", <<FALSE, FALSE, FALSE, TRUE>>,
                    Uniform(20), Uniform(10))),
      [defined |-> TRUE,
       hands |-> << MkHand("Right", Pt(50, 50), "in", "slant", Straight,
                           Uniform(35), Uniform(5)),
                    MkHand("Left", Pt(50, 50), "out", "up", Straight,
                           Uniform(20), Uniform(10)) >>] }

Feed == IF onResultsCallback THEN AppFrames ELSE Frames

\* A HandTracker on its own, constructed without a callback.
Init ==
    /\ variant \in Variants
    /\ window \in WindowSizes
    /\ results = NoResults
    /\ interactionState = InitialInteractionState
    /\ onResultsCallback = FALSE
    /\ errors = << >>
    /\ lastOp = "init"
    /\ currentTheme = 1
    /\ isRunning = FALSE
    /\ frameCount = 0
    /\ currentPositions = << >>
    /\ velocities = << >>
    /\ targetPositions = << >>
    /\ positions = << >>
    /\ generateCalls = 0
    /\ task = "idle"
    /\ cursor = 0
    /\ pending = << >>
    /\ colors = << >>
    /\ lastText = ""
    /\ updateCalls = 0
    /\ animationFrameId = 0
    /\ frameRequests = {}
    /\ appErrors = << >>
    /\ setup = "pending"
    /\ initResult = [handTracker |-> "pending", app |-> "pending"]
    /\ fps = 0
    /\ lastTime = 0
    /\ frameTimes = << >>
    /\ now = 0

\* The application after App.init() has returned true: the particle
\* system built and given the targets of the first theme's text, the
\* tracker constructed with App's callback, the animation loop started.
InitApp ==
    /\ variant \in Variants
    /\ window = [innerWidth |-> 800, innerHeight |-> 600]
    /\ results = NoResults
    /\ interactionState = InitialInteractionState
    /\ onResultsCallback = TRUE
    /\ errors = << >>
    /\ lastOp = "init"
    /\ currentTheme = 1
    /\ isRunning = TRUE
    /\ frameCount = 0
    /\ currentPositions \in InitialPositions
    /\ velocities = [i \in Particles |-> Vector3(0, 0, 0)]
    /\ targetPositions \in generateTextParticles(ThemeText(1))
    /\ positions = Buffer(currentPositions)
    /\ generateCalls = 1
    /\ task = "idle"
    /\ cursor = 0
    /\ pending = targetPositions
    /\ colors = [k \in 1..(3 * NumParticles) |-> 100]
    /\ lastText = ThemeText(1)
    /\ updateCalls = 0
    /\ animationFrameId = 1
    /\ frameRequests = {1}
    /\ appErrors = << >>
    /\ setup = "ok"
    /\ initResult = [handTracker |-> "true", app |-> "true"]
    /\ fps = 0
    /\ lastTime = 0
    /\ frameTimes = << >>
    /\ now = 0

\* App.onHandTrackingUpdate(interactionState): the theme and the targets
\* after the callback, given the state the tracker hands over.
\* Mutant: the theme is set and the text resampled on every callback with
\* a mode in range, changed or not.
onHandTrackingUpdate_NoStickyCheck(st) ==
    IF st.mode >= 1 /\ st.mode <= 3
    THEN /\ currentTheme' = st.mode
         /\ targetPositions' \in generateTextParticles(ThemeText(st.mode))
         /\ pending' = targetPositions'
         /\ lastText' = ThemeText(st.mode)
         /\ generateCalls' = 1
    ELSE /\ UNCHANGED <<currentTheme, targetPositions, pending, lastText>>
         /\ generateCalls' = 0

onHandTrackingUpdate(st) ==
    IF st.mode >= 1 /\ st.mode <= 3 /\ currentTheme # st.mode
    THEN /\ currentTheme' = st.mode
         /\ targetPositions' \in generateTextParticles(ThemeText(st.mode))
         /\ pending' = targetPositions'
         /\ lastText' = ThemeText(st.mode)
         /\ generateCalls' = 1
    ELSE /\ UNCHANGED <<currentTheme, targetPositions, pending, lastText>>
         /\ generateCalls' = 0

\* hands.onResults((results) => { this.processResults(results);
\*     if (this.onResultsCallback) this.onResultsCallback(this.interactionState); })
\* Mutant: a handler may start while another one is running.
EventLoopIdle_Preemptive == TRUE

\* Handlers are callbacks of the browser's event loop (hands.onResults,
\* requestAnimationFrame): one starts only when none is running.
EventLoopIdle == task = "idle"

\* The listener given to hands.onResults, called with the results res.
OnResultsWith(res) ==
    /\ EventLoopIdle
    /\ results' = res
    /\ interactionState' = processResults(variant, window, interactionState, res)
    /\ IF onResultsCallback
       THEN onHandTrackingUpdate(interactionState')
       ELSE /\ UNCHANGED <<currentTheme, targetPositions, pending, lastText>>
            /\ generateCalls' = 0
    /\ lastOp' = "onResults"
    /\ UNCHANGED <<lifeVars, monitorVars>>
    /\ UNCHANGED <<variant, window, onResultsCallback, errors, isRunning, frameCount,
                   currentPositions, velocities, positions, colors, loopVars,
                   updateCalls>>

OnResults == \E res \in Feed : OnResultsWith(res)

\* The browser window is resized.
Resize ==
    \E win \in WindowSizes :
        /\ win # window
        /\ window' = win
        /\ lastOp' = "resize"
        /\ generateCalls' = 0
        /\ UNCHANGED <<lifeVars, monitorVars>>
        /\ UNCHANGED <<variant, results, interactionState, onResultsCallback, errors,
                       appVars, fieldVars, loopVars, pending, lastText, updateCalls>>

\* Mutant: the getter hands out a fresh state.
getInteractionState_Initial == InitialInteractionState

\* HandTracker.getInteractionState()
getInteractionState == interactionState

(***************************************************************************)
(* PerformanceMonitor.  Times are whole milliseconds.                      *)
(***************************************************************************)
maxFrameTimeHistory == 60

RECURSIVE SumOf(_)
\* frameTimes.reduce((a, b) => a + b, 0)
SumOf(ts) == IF ts = << >> THEN 0 ELSE Head(ts) + SumOf(Tail(ts))

\* Math.round(a / b) for positive a and b.
RoundDiv(a, b) == (2 * a + b) \div (2 * b)

\* The monitor as a record of its fields.
Monitor == [fps |-> fps, frameCount |-> frameCount, lastTime |-> lastTime,
            frameTimes |-> frameTimes]

\* Mutant: the history is cut when it reaches its maximum, not past it.
monitorUpdate_ShiftsEarly(m, t) ==
    LET pushed == Append(m.frameTimes, t - m.lastTime)
        kept == IF Len(pushed) >= maxFrameTimeHistory THEN Tail(pushed) ELSE pushed
        count == m.frameCount + 1
    IN  [fps |-> IF count % 60 = 0
                 THEN RoundDiv(1000 * Len(kept), SumOf(kept))
                 ELSE m.fps,
         frameCount |-> count,
         lastTime |-> t,
         frameTimes |-> kept]

\* PerformanceMonitor.update() when performance.now() reads t, later than
\* lastTime: the fields afterwards.  Math.round(1000 / avgFrameTime) is
\* Math.round(1000 * length / sum).
monitorUpdate(m, t) ==
    LET pushed == Append(m.frameTimes, t - m.lastTime)
        kept == IF Len(pushed) > maxFrameTimeHistory THEN Tail(pushed) ELSE pushed
        count == m.frameCount + 1
    IN  [fps |-> IF count % 60 = 0
                 THEN RoundDiv(1000 * Len(kept), SumOf(kept))
                 ELSE m.fps,
         frameCount |-> count,
         lastTime |-> t,
         frameTimes |-> kept]

\* PerformanceMonitor.reset() when performance.now() reads t.
monitorReset(m, t) == [fps |-> 0, frameCount |-> 0, lastTime |-> t, frameTimes |-> << >>]

\* PerformanceMonitor.getFPS()
getFPS == fps

\* PerformanceMonitor.getAverageFrameTime(), in hundredths of a millisecond.
getAverageFrameTime ==
    IF Len(frameTimes) = 0 THEN 0 ELSE (100 * SumOf(frameTimes)) \div Len(frameTimes)

\* performance.now() at the call after the one that read t: 16 to 18 ms
\* later in the first second, 33 ms later afterwards.
performanceNow(t) == IF t < 1100 THEN t + 16 + (t % 3) ELSE t + 33

\* Mutant: the frame consumes the hand it has used and leaves none.
animate_ConsumesHand(queue) ==
    /\ frameCount < MaxFrames
    /\ animationFrameId' = animationFrameId + 1
    /\ frameRequests' = queue \cup {animationFrameId + 1}
    /\ \E noise \in NoiseFields :
         LET next == update(getElapsedTime(frameCount), currentTheme,
                            getInteractionState, noise)
         IN  /\ currentPositions' = next.currentPositions
             /\ velocities' = next.velocities
             /\ positions' = next.positions
             /\ colors' = next.colors
    /\ interactionState' = resetState(interactionState)
    /\ now' = performanceNow(now)
    /\ LET m == monitorUpdate(Monitor, now')
       IN  /\ fps' = m.fps
           /\ frameCount' = m.frameCount
           /\ lastTime' = m.lastTime
           /\ frameTimes' = m.frameTimes
    /\ updateCalls' = updateCalls + 1
    /\ generateCalls' = 0
    /\ UNCHANGED <<variant, window, results, onResultsCallback, errors, currentTheme,
                   targetPositions, loopVars, pending, lastText>>

\* The body of App.animate() past its isRunning test, the frame requests
\* not yet run being queue: the next frame is requested, then
\* ParticleSystem.update runs with the tracker's interaction state, then
\* performanceMonitor.update() counts and times the frame.  The browser
\* numbers its requests upwards.
animate(queue) ==
    /\ frameCount < MaxFrames
    /\ animationFrameId' = animationFrameId + 1
    /\ frameRequests' = queue \cup {animationFrameId + 1}
    /\ \E noise \in NoiseFields :
         LET next == update(getElapsedTime(frameCount), currentTheme,
                            getInteractionState, noise)
         IN  /\ currentPositions' = next.currentPositions
             /\ velocities' = next.velocities
             /\ positions' = next.positions
             /\ colors' = next.colors
    /\ now' = performanceNow(now)
    /\ LET m == monitorUpdate(Monitor, now')
       IN  /\ fps' = m.fps
           /\ frameCount' = m.frameCount
           /\ lastTime' = m.lastTime
           /\ frameTimes' = m.frameTimes
    /\ updateCalls' = updateCalls + 1
    /\ generateCalls' = 0
    /\ UNCHANGED <<trackerVars, currentTheme, targetPositions, loopVars, pending, lastText>>

\* A requested animation frame runs App.animate(), which returns at once
\* when the application is not running.
Animate ==
    /\ EventLoopIdle
    /\ \E id \in frameRequests :
         IF isRunning
         THEN /\ animate(frameRequests \ {id})
              /\ lastOp' = "animate"
              /\ UNCHANGED <<isRunning, appErrors, setup, initResult>>
         ELSE /\ frameRequests' = frameRequests \ {id}
              /\ lastOp' = "animateReturn"
              /\ generateCalls' = 0
              /\ UNCHANGED <<animationFrameId, appErrors, setup, initResult, monitorVars>>
              /\ UNCHANGED <<trackerVars, appVars, fieldVars, loopVars, pending, lastText,
                             updateCalls>>

\* App.start(): nothing when already running, else the first animate().
Start ==
    /\ EventLoopIdle
    /\ IF isRunning
       THEN /\ generateCalls' = 0
            /\ UNCHANGED <<lifeVars, monitorVars>>
            /\ UNCHANGED <<trackerVars, appVars, fieldVars, loopVars, pending, lastText,
                           updateCalls>>
       ELSE /\ isRunning' = TRUE
            /\ animate(frameRequests)
            /\ UNCHANGED <<appErrors, setup, initResult>>
    /\ lastOp' = "start"

\* Mutant: the request stays in the browser's list.
cancelAnimationFrame_Ignored(queue, id) == queue

\* cancelAnimationFrame(id): the requests left.
cancelAnimationFrame(queue, id) == queue \ {id}

\* App.stop()
Stop ==
    /\ EventLoopIdle
    /\ isRunning' = FALSE
    /\ frameRequests' = IF animationFrameId # 0
                        THEN cancelAnimationFrame(frameRequests, animationFrameId)
                        ELSE frameRequests
    /\ lastOp' = "stop"
    /\ generateCalls' = 0
    /\ UNCHANGED <<animationFrameId, appErrors, setup, initResult, monitorVars>>
    /\ UNCHANGED <<trackerVars, currentTheme, frameCount, fieldVars, loopVars, pending,
                   lastText, updateCalls>>

Next == OnResults \/ Resize

Spec == Init /\ [][Next]_vars

NextApp == OnResults \/ Animate

SpecApp == InitApp /\ [][NextApp]_vars

(***************************************************************************)
(* A PerformanceMonitor on its own, update() and reset() called at any     *)
(* time until the clock reads MaxNow.                                      *)
(***************************************************************************)
MaxNow == 3000

InitMonitor ==
    /\ Init
    /\ variant = "avgDist"
    /\ window = [innerWidth |-> 800, innerHeight |-> 600]

\* performanceMonitor.update()
MonitorUpdate ==
    /\ now < MaxNow
    /\ now' = performanceNow(now)
    /\ LET m == monitorUpdate(Monitor, now')
       IN  /\ fps' = m.fps
           /\ frameCount' = m.frameCount
           /\ lastTime' = m.lastTime
           /\ frameTimes' = m.frameTimes
    /\ lastOp' = "monitorUpdate"
    /\ generateCalls' = 0
    /\ UNCHANGED <<trackerVars, currentTheme, isRunning, fieldVars, loopVars, pending,
                   lastText, updateCalls, lifeVars>>

\* performanceMonitor.reset()
MonitorReset ==
    /\ now < MaxNow
    /\ now' = performanceNow(now)
    /\ LET m == monitorReset(Monitor, now')
       IN  /\ fps' = m.fps
           /\ frameCount' = m.frameCount
           /\ lastTime' = m.lastTime
           /\ frameTimes' = m.frameTimes
    /\ lastOp' = "reset"
    /\ generateCalls' = 0
    /\ UNCHANGED <<trackerVars, currentTheme, isRunning, fieldVars, loopVars, pending,
                   lastText, updateCalls, lifeVars>>

NextMonitor == MonitorUpdate \/ MonitorReset

SpecMonitor == InitMonitor /\ [][NextMonitor]_vars

\* The started application with start() and stop() called at any time.
NextRun == Start \/ Stop \/ Animate

SpecRun == InitApp /\ [][NextRun]_vars

(***************************************************************************)
(* The camera: every camera frame is sent to the detector, which hands     *)
(* its results to the listener or throws.                                  *)
(***************************************************************************)
maxErrors == 50

\* The detector failures of a run.
MaxThrows == 1

\* Mutant: the error is not kept.
log_Dropped(errs, context, timestamp) == errs

\* Mutant: past the maximum the newest entry is dropped, not the oldest.
log_EvictsNewest(errs, context, timestamp) ==
    LET pushed == Append(errs, [context |-> context, timestamp |-> timestamp])
    IN  IF Len(pushed) > maxErrors THEN SubSeq(pushed, 1, maxErrors) ELSE pushed

\* ErrorHandler.log(error, context) when the Date clock reads timestamp:
\* the errors kept afterwards.
log(errs, context, timestamp) ==
    LET pushed == Append(errs, [context |-> context, timestamp |-> timestamp])
    IN  IF Len(pushed) > maxErrors THEN Tail(pushed) ELSE pushed

\* ErrorHandler.handleHandTrackingError(error)
handleHandTrackingError(errs, timestamp) == log(errs, "HandTracking", timestamp)

\* ErrorHandler.handleCameraError(error)
handleCameraError(errs, timestamp) == log(errs, "Camera", timestamp)

\* ErrorHandler.getErrors() of the tracker's handler
getErrors == errors

\* ErrorHandler.clearErrors(): the errors kept afterwards.
clearErrors(errs) == << >>

\* The results the detector hands over for the camera frames: no hand, a
\* fist of the dominant hand, two fingers of the other hand.
CameraFrames ==
    { NoResults,
      Single(MkHand("Right", Pt(20, 70), "in", "slant", Curled, Uniform(10), Uniform(5))),
      Single(MkHand("Left", Pt(50, 50), "in", "up", <<FALSE, FALSE, TRUE, TRUE>>,
                    Uniform(20), Uniform(10))) }

\* onFrame: await this.hands.send({ image }) throws, and the catch block
\* hands the error to the error handler.
SendThrows ==
    /\ EventLoopIdle
    /\ Len(errors) < MaxThrows
    /\ errors' = handleHandTrackingError(errors, now)
    /\ lastOp' = "handleHandTrackingError"
    /\ generateCalls' = 0
    /\ UNCHANGED <<lifeVars, monitorVars>>
    /\ UNCHANGED <<variant, window, results, interactionState, onResultsCallback,
                   appVars, fieldVars, loopVars, pending, lastText, updateCalls>>

\* onFrame: await this.hands.send({ image }) calls the listener.
SendResults == \E res \in CameraFrames : OnResultsWith(res)

\* Camera's onFrame, for one camera frame.
OnFrame == SendResults \/ SendThrows

NextCamera == OnFrame \/ Animate

SpecCamera == InitApp /\ [][NextCamera]_vars

(***************************************************************************)
(* An ErrorHandler on its own: log() once in every millisecond, up to      *)
(* MaxLogs calls, and clearErrors() at any time.                           *)
(***************************************************************************)
MaxLogs == 52

\* The contexts the application logs under, taken in turn.
LogContexts == <<"HandTracking", "Camera", "App.init">>

\* errorHandler.log(error, context)
Log ==
    /\ now < MaxLogs
    /\ now' = now + 1
    /\ errors' = log(errors, LogContexts[(now % 3) + 1], now')
    /\ lastOp' = "log"
    /\ generateCalls' = 0
    /\ UNCHANGED <<variant, window, results, interactionState, onResultsCallback,
                   appVars, fieldVars, loopVars, pending, lastText, updateCalls,
                   lifeVars, fps, lastTime, frameTimes>>

\* errorHandler.clearErrors()
ClearErrors ==
    /\ errors' = clearErrors(errors)
    /\ lastOp' = "clearErrors"
    /\ generateCalls' = 0
    /\ UNCHANGED <<variant, window, results, interactionState, onResultsCallback,
                   appVars, fieldVars, loopVars, pending, lastText, updateCalls,
                   lifeVars, monitorVars>>

NextErrors == Log \/ ClearErrors

SpecErrors == InitMonitor /\ [][NextErrors]_vars

(***************************************************************************)
(* App.init().  It runs up to the camera's start, which the browser        *)
(* settles later; a failure before that is settled in the same task.       *)
(***************************************************************************)
\* How the setup can go: the scene fails, new Hands or setOptions throws,
\* new Camera throws, the camera is starting, camera.start() rejects or
\* resolves.
EarlySetups == {"sceneFailed", "handsFailed", "cameraFailed", "starting"}

LateSetups == {"startFailed", "ok"}

\* Mutant: init has no try/catch, and a setup failure rejects it.
handTrackerInit_NoCatch(outcome, errs, timestamp) ==
    CASE outcome \in {"handsFailed", "cameraFailed"} ->
            [resolved |-> "rejected", errors |-> errs]
      [] outcome = "startFailed" ->
            [resolved |-> "rejected", errors |-> handleCameraError(errs, timestamp)]
      [] OTHER -> [resolved |-> "true", errors |-> errs]

\* HandTracker.init() with setupHands and setupCamera going as outcome
\* says: what it resolves to and the errors of the tracker's handler.
\* A rejected camera.start() is handed to handleCameraError before
\* setupCamera rejects.
handTrackerInit(outcome, errs, timestamp) ==
    CASE outcome \in {"handsFailed", "cameraFailed"} ->
            [resolved |-> "false", errors |-> handleHandTrackingError(errs, timestamp)]
      [] outcome = "startFailed" ->
            [resolved |-> "false",
             errors |-> handleHandTrackingError(handleCameraError(errs, timestamp),
                                                timestamp)]
      [] OTHER -> [resolved |-> "true", errors |-> errs]

\* App.init() from the settling of handTracker.init() on: a tracker that
\* is not ready is thrown to the catch block, which logs and returns false.
appInitResume(ready, errs, timestamp) ==
    IF ready = "true"
    THEN [resolved |-> "true", errors |-> errs]
    ELSE [resolved |-> "false", errors |-> log(errs, "App.init", timestamp)]

\* App.init() up to the camera's start: the scene, the particle system
\* with the targets of the first theme's text, the tracker and its setup.
AppInitBegin ==
    \E outcome \in EarlySetups :
        /\ setup = "pending"
        /\ setup' = outcome
        /\ lastOp' = "App.init"
        /\ IF outcome = "sceneFailed"
           THEN /\ appErrors' = log(appErrors, "App.init", now)
                /\ initResult' = [initResult EXCEPT !.app = "false"]
                /\ generateCalls' = 0
                /\ UNCHANGED <<onResultsCallback, errors, fieldVars, pending, lastText>>
           ELSE /\ currentPositions' \in InitialPositions
                /\ velocities' = [i \in Particles |-> Vector3(0, 0, 0)]
                /\ targetPositions' \in generateTextParticles(ThemeText(currentTheme))
                /\ positions' = Buffer(currentPositions')
                /\ colors' = [k \in 1..(3 * NumParticles) |-> 100]
                /\ pending' = targetPositions'
                /\ lastText' = ThemeText(currentTheme)
                /\ generateCalls' = 1
                /\ onResultsCallback' = TRUE
                /\ IF outcome = "starting"
                   THEN UNCHANGED <<errors, appErrors, initResult>>
                   ELSE LET tracker == handTrackerInit(outcome, errors, now)
                            app == appInitResume(tracker.resolved, appErrors, now)
                        IN  /\ errors' = tracker.errors
                            /\ appErrors' = app.errors
                            /\ initResult' = [handTracker |-> tracker.resolved,
                                              app |-> app.resolved]
        /\ UNCHANGED <<variant, window, results, interactionState, appVars, loopVars,
                       updateCalls, animationFrameId, frameRequests, monitorVars>>

\* camera.start() settles and App.init() runs to its end: start() when the
\* tracker is ready.
AppInitEnd ==
    \E outcome \in LateSetups :
        /\ setup = "starting"
        /\ setup' = outcome
        /\ lastOp' = "App.init"
        /\ LET tracker == handTrackerInit(outcome, errors, now)
               app == appInitResume(tracker.resolved, appErrors, now)
           IN  /\ appErrors' = app.errors
               /\ initResult' = [handTracker |-> tracker.resolved, app |-> app.resolved]
               /\ IF app.resolved = "true"
                  THEN /\ isRunning' = TRUE
                       /\ animate(frameRequests)
                  ELSE /\ errors' = tracker.errors
                       /\ generateCalls' = 0
                       /\ UNCHANGED <<variant, window, results, interactionState,
                                      onResultsCallback, appVars, fieldVars, loopVars,
                                      pending, lastText, updateCalls, animationFrameId,
                                      frameRequests, monitorVars>>

NextInit == AppInitBegin \/ AppInitEnd \/ Animate

SpecInit == Init /\ [][NextInit]_vars

(***************************************************************************)
(* The same application with the detector callback taken statement by      *)
(* statement: processResults resets the state, then handles the hands one  *)
(* by one; the callback then selects the theme, and generateTextParticles  *)
(* writes the targets one particle at a time.                              *)
(***************************************************************************)
\* processResults up to its loop: the reset, and the early return.
BeginResults ==
    \E res \in Feed :
        /\ EventLoopIdle
        /\ onResultsCallback
        /\ results' = res
        /\ interactionState' = resetState(interactionState)
        /\ task' = "processResults"
        /\ cursor' = 1
        /\ lastOp' = "beginResults"
        /\ generateCalls' = 0
        /\ UNCHANGED <<lifeVars, monitorVars>>
        /\ UNCHANGED <<variant, window, onResultsCallback, errors, appVars, fieldVars, pending,
                       lastText, updateCalls>>

\* One iteration of processResults' loop over the hands.
ProcessHand ==
    /\ task = "processResults"
    /\ cursor <= Len(results.hands)
    /\ interactionState' =
            processHand(variant, window, interactionState, results.hands[cursor])
    /\ cursor' = cursor + 1
    /\ lastOp' = "processHand"
    /\ UNCHANGED <<lifeVars, monitorVars>>
    /\ UNCHANGED <<variant, window, results, onResultsCallback, errors, appVars, fieldVars,
                   callVars, task>>

\* processResults returns and onResultsCallback runs App.onHandTrackingUpdate
\* up to generateTextParticles' loop over the particles.
BeginCallback ==
    /\ task = "processResults"
    /\ cursor > Len(results.hands)
    /\ IF /\ interactionState.mode >= 1 /\ interactionState.mode <= 3
          /\ currentTheme # interactionState.mode
       THEN /\ currentTheme' = interactionState.mode
            /\ pending' \in generateTextParticles(ThemeText(interactionState.mode))
            /\ lastText' = ThemeText(interactionState.mode)
            /\ generateCalls' = 1
            /\ task' = "generateTextParticles"
            /\ cursor' = 1
       ELSE /\ UNCHANGED <<currentTheme, pending, lastText>>
            /\ generateCalls' = 0
            /\ task' = "idle"
            /\ cursor' = 0
    /\ lastOp' = "callback"
    /\ UNCHANGED <<lifeVars, monitorVars>>
    /\ UNCHANGED <<trackerVars, isRunning, frameCount, fieldVars, updateCalls>>

\* One iteration of generateTextParticles' loop: targetPositions[i].set(...).
SetTarget ==
    /\ task = "generateTextParticles"
    /\ targetPositions' = [targetPositions EXCEPT ![cursor] = pending[cursor]]
    /\ IF cursor < NumParticles
       THEN /\ cursor' = cursor + 1
            /\ task' = task
       ELSE /\ cursor' = 0
            /\ task' = "idle"
    /\ lastOp' = "setTarget"
    /\ UNCHANGED <<lifeVars, monitorVars>>
    /\ UNCHANGED <<trackerVars, appVars, currentPositions, velocities, positions,
                   colors, callVars>>

NextLoop == BeginResults \/ ProcessHand \/ BeginCallback \/ SetTarget \/ Animate

SpecLoop == InitApp /\ [][NextLoop]_vars

(***************************************************************************)
(* A ParticleSystem on its own: constructed, given the text of any of the  *)
(* five themes, then updated with that theme and any interaction state.    *)
(* (SpecApp interleaves the text changes with the updates.)                *)
(***************************************************************************)
\* The interaction states update is called with: no hand, an open hand at
\* the origin, a fist and a two-finger hand beside a particle, a neutral
\* hand on one.
HandStates ==
    { InitialInteractionState,
      [mode |-> 1, rightHandPos |-> Vector3(0, 0, 0), rightHandAction |-> "open"],
      [mode |-> 1, rightHandPos |-> Vector3(Units(240), Units(-120), 0),
       rightHandAction |-> "fist"],
      [mode |-> 1, rightHandPos |-> Vector3(Units(100), Units(50), 0),
       rightHandAction |-> "neutral"],
      [mode |-> 1, rightHandPos |-> Vector3(Units(150), Units(-30), 0),
       rightHandAction |-> "twoFingers"] }

\* new ParticleSystem(scene): createGeometry.
InitField ==
    /\ variant = "avgDist"
    /\ window = [innerWidth |-> 800, innerHeight |-> 600]
    /\ results = NoResults
    /\ interactionState = InitialInteractionState
    /\ onResultsCallback = FALSE
    /\ errors = << >>
    /\ lastOp = "init"
    /\ currentTheme = 1
    /\ isRunning = FALSE
    /\ frameCount = 0
    /\ currentPositions \in InitialPositions
    /\ velocities = [i \in Particles |-> Vector3(0, 0, 0)]
    /\ targetPositions = [i \in Particles |-> Vector3(0, 0, 0)]
    /\ positions = Buffer(currentPositions)
    /\ colors = [k \in 1..(3 * NumParticles) |-> 100]
    /\ generateCalls = 0
    /\ task = "idle"
    /\ cursor = 0
    /\ pending = << >>
    /\ lastText = ""
    /\ updateCalls = 0
    /\ animationFrameId = 0
    /\ frameRequests = {}
    /\ appErrors = << >>
    /\ setup = "pending"
    /\ initResult = [handTracker |-> "pending", app |-> "pending"]
    /\ fps = 0
    /\ lastTime = 0
    /\ frameTimes = << >>
    /\ now = 0

\* particleSystem.generateTextParticles(THEMES[k].text), before the
\* first update; currentTheme keeps k.
GenerateText ==
    \E k \in 1..5 :
        /\ updateCalls = 0
        /\ targetPositions' \in generateTextParticles(ThemeText(k))
        /\ pending' = targetPositions'
        /\ lastText' = ThemeText(k)
        /\ currentTheme' = k
        /\ generateCalls' = 1
        /\ lastOp' = "generateTextParticles"
        /\ UNCHANGED <<lifeVars, monitorVars>>
        /\ UNCHANGED <<trackerVars, isRunning, frameCount, currentPositions, velocities,
                       positions, colors, loopVars, updateCalls>>

\* particleSystem.update(time, THEMES[currentTheme], st) at the clock's
\* reading; interactionState keeps the st of the call.
Update ==
    \E st \in HandStates, noise \in NoiseFields :
        /\ updateCalls < MaxFrames
        /\ LET next == update(getElapsedTime(updateCalls), currentTheme, st, noise)
           IN  /\ currentPositions' = next.currentPositions
               /\ velocities' = next.velocities
               /\ positions' = next.positions
               /\ colors' = next.colors
        /\ interactionState' = st
        /\ updateCalls' = updateCalls + 1
        /\ generateCalls' = 0
        /\ lastOp' = "update"
        /\ UNCHANGED <<lifeVars, monitorVars>>
        /\ UNCHANGED <<variant, window, results, onResultsCallback, errors, appVars,
                       targetPositions, loopVars, pending, lastText>>

NextField == GenerateText \/ Update

SpecField == InitField /\ [][NextField]_vars

(***************************************************************************)
(* The field left to settle: the text is set before the first update, and  *)
(* every update runs with the hand absent and the noise terms at zero.     *)
(***************************************************************************)
MaxSettleFrames == 24

ZeroNoise == [i \in Particles |-> Vector3(0, 0, 0)]

\* particleSystem.update(time, THEMES[currentTheme], st) with no hand in st.
Settle ==
    /\ updateCalls < MaxSettleFrames
    /\ LET next == update(getElapsedTime(updateCalls), currentTheme,
                          InitialInteractionState, ZeroNoise)
       IN  /\ currentPositions' = next.currentPositions
           /\ velocities' = next.velocities
           /\ positions' = next.positions
           /\ colors' = next.colors
    /\ updateCalls' = updateCalls + 1
    /\ generateCalls' = 0
    /\ lastOp' = "update"
    /\ UNCHANGED <<lifeVars, monitorVars>>
    /\ UNCHANGED <<trackerVars, appVars, targetPositions, loopVars, pending, lastText>>

NextSettle == GenerateText \/ Settle

SpecSettle == InitField /\ [][NextSettle]_vars

(***************************************************************************)
(* Construction with any CONFIG.particleCount: the configured count, zero  *)
(* or a negative one.  The count of a constructed field is the length of   *)
(* its arrays.                                                             *)
(***************************************************************************)
ParticleCounts == { -1, 0, NumParticles }

\* new Float32Array(length) throws a RangeError for a negative length.
Float32Array(length) ==
    IF length < 0
    THEN [thrown |-> "RangeError"]
    ELSE [thrown |-> "none", array |-> [k \in 1..length |-> 0]]

\* createGeometry() with CONFIG.particleCount = n, the Math.random() draws
\* of the positions being init: the arrays and buffers it leaves, or the
\* error it throws.
createGeometry(n, init) ==
    IF Float32Array(n * 3).thrown = "RangeError"
    THEN [thrown |-> "RangeError"]
    ELSE [thrown |-> "none",
          currentPositions |-> [i \in 1..n |-> init[i]],
          velocities |-> [i \in 1..n |-> Vector3(0, 0, 0)],
          targetPositions |-> [i \in 1..n |-> Vector3(0, 0, 0)],
          positions |-> Buffer([i \in 1..n |-> init[i]]),
          colors |-> [k \in 1..(3 * n) |-> 100]]

\* The module is loaded and no ParticleSystem is constructed yet.
InitConstruct ==
    /\ variant = "avgDist"
    /\ window = [innerWidth |-> 800, innerHeight |-> 600]
    /\ results = NoResults
    /\ interactionState = InitialInteractionState
    /\ onResultsCallback = FALSE
    /\ errors = << >>
    /\ lastOp = "init"
    /\ currentTheme = 1
    /\ isRunning = FALSE
    /\ frameCount = 0
    /\ currentPositions = << >>
    /\ velocities = << >>
    /\ targetPositions = << >>
    /\ positions = << >>
    /\ colors = << >>
    /\ generateCalls = 0
    /\ task = "idle"
    /\ cursor = 0
    /\ pending = << >>
    /\ lastText = ""
    /\ updateCalls = 0
    /\ animationFrameId = 0
    /\ frameRequests = {}
    /\ appErrors = << >>
    /\ setup = "pending"
    /\ initResult = [handTracker |-> "pending", app |-> "pending"]
    /\ fps = 0
    /\ lastTime = 0
    /\ frameTimes = << >>
    /\ now = 0

\* new ParticleSystem(scene) with CONFIG.particleCount = n.
Construct ==
    \E n \in ParticleCounts, init \in InitialPositions :
        /\ lastOp = "init"
        /\ LET made == createGeometry(n, init)
           IN  IF made.thrown = "RangeError"
               THEN /\ lastOp' = "RangeError"
                    /\ UNCHANGED fieldVars
               ELSE /\ lastOp' = "constructor"
                    /\ currentPositions' = made.currentPositions
                    /\ velocities' = made.velocities
                    /\ targetPositions' = made.targetPositions
                    /\ positions' = made.positions
                    /\ colors' = made.colors
        /\ UNCHANGED <<lifeVars, monitorVars>>
        /\ UNCHANGED <<trackerVars, appVars, loopVars, callVars>>

\* A field was constructed: new ParticleSystem returned an object.
Constructed == lastOp \notin { "init", "RangeError" }

\* generateTextParticles on the constructed field; its loop over
\* CONFIG.particleCount has no pass when the count is 0.
GenerateTextConstructed ==
    /\ Constructed
    /\ IF Len(currentPositions) = NumParticles
       THEN GenerateText
       ELSE \E k \in 1..5 :
                /\ updateCalls = 0
                /\ lastText' = ThemeText(k)
                /\ currentTheme' = k
                /\ generateCalls' = 1
                /\ lastOp' = "generateTextParticles"
                /\ UNCHANGED <<lifeVars, monitorVars>>
                /\ UNCHANGED <<trackerVars, isRunning, frameCount, fieldVars,
                               loopVars, pending, updateCalls>>

\* update on the constructed field; its loop over CONFIG.particleCount has
\* no pass when the count is 0.
UpdateConstructed ==
    /\ Constructed
    /\ IF Len(currentPositions) = NumParticles
       THEN Update
       ELSE \E st \in HandStates :
                /\ updateCalls < MaxFrames
                /\ interactionState' = st
                /\ updateCalls' = updateCalls + 1
                /\ generateCalls' = 0
                /\ lastOp' = "update"
                /\ UNCHANGED <<lifeVars, monitorVars>>
                /\ UNCHANGED <<variant, window, results, onResultsCallback, errors, appVars,
                               fieldVars, loopVars, pending, lastText>>

NextConstruct == Construct \/ GenerateTextConstructed \/ UpdateConstructed

SpecConstruct == InitConstruct /\ [][NextConstruct]_vars

(***************************************************************************)
(* Vocabulary of the properties                                            *)
(***************************************************************************)
Hands(res) == IF res.defined THEN res.hands ELSE << >>

RightIdx(res) == { i \in 1..Len(Hands(res)) : Hands(res)[i].label = "Right" }

NonRightIdx(res) == { i \in 1..Len(Hands(res)) : Hands(res)[i].label # "Right" }

HasRight(res) == RightIdx(res) # {}

Last(S) == CHOOSE m \in S : \A k \in S : k <= m

\* The valid mode range of a variant, as the specification states it.
ValidModes(v) == IF v = "thumb" THEN 1..5 ELSE 1..3

\* The finger count a hand of the frame shows to processLeftHand.
Count(res, i) == fingers(variant, Hands(res)[i].landmarks)

FourExtended(lm) ==
    /\ lm[8].y < lm[6].y   /\ lm[12].y < lm[10].y
    /\ lm[16].y < lm[14].y /\ lm[20].y < lm[18].y

\* The landmarks of the frame's only 'Right' hand.
OneRight(res) == Cardinality(RightIdx(res)) = 1

TheRight(res) == Hands(res)[Last(RightIdx(res))].landmarks

(***************************************************************************)
(* C1.  After every processResults call, in every variant, rightHandPos is *)
(* the sentinel (9999, 9999, 0) exactly when the processed frame held no   *)
(* hand labelled 'Right'.  The same holds of the x coordinate alone, which *)
(* is what ParticleSystem.update tests.                                    *)
(***************************************************************************)
C1_SentinelIffNoRightHand ==
    /\ interactionState.rightHandPos = Sentinel <=> ~HasRight(results)
    /\ interactionState.rightHandPos.x = Units(9999) <=> ~HasRight(results)

\* A two-hand frame with a right hand has been classified.
C1_Witness ==
    /\ lastOp = "onResults"
    /\ Len(Hands(results)) = 2
    /\ HasRight(results)
    /\ interactionState.rightHandPos # Sentinel

(***************************************************************************)
(* C2.  A zero-hand result (landmark list missing or empty), fed in any    *)
(* reachable state, leaves rightHandAction = 'neutral', rightHandPos =     *)
(* sentinel and mode as it was before the call; so does any run of them.   *)
(***************************************************************************)
ZeroHands(res) == Len(Hands(res)) = 0

C2_ZeroHandIdempotent ==
    [][ lastOp' = "onResults" /\ ZeroHands(results') =>
            /\ interactionState'.rightHandAction = "neutral"
            /\ interactionState'.rightHandPos = Sentinel
            /\ interactionState'.mode = interactionState.mode ]_vars

\* A zero-hand result has been processed while the mode was not the initial one.
C2_Witness ==
    /\ lastOp = "onResults"
    /\ ZeroHands(results)
    /\ interactionState.mode # 1
    /\ interactionState.rightHandAction = "neutral"

(***************************************************************************)
(* C3.  mode always lies in the variant's valid range, 1..3 for the base   *)
(* variants and 1..5 for the thumb-aware one: a count of 0 or above the    *)
(* range is never stored.                                                  *)
(***************************************************************************)
C3_ModeInRange ==
    /\ variant # "thumb" => interactionState.mode \in 1..3
    /\ variant = "thumb" => interactionState.mode \in 1..5

\* A base variant has just seen a non-dominant hand showing four fingers.
C3_Witness ==
    /\ lastOp = "onResults"
    /\ variant = "curl"
    /\ \E i \in NonRightIdx(results) : Count(results, i) = 4

(***************************************************************************)
(* C4.  A processResults call whose frame holds only 'Right' hands, or     *)
(* whose non-'Right' hands all show an out-of-range finger count, leaves   *)
(* mode unchanged, whatever the dominant-hand landmarks are.               *)
(***************************************************************************)
NoModeHand(res) ==
    \A i \in NonRightIdx(res) : Count(res, i) \notin ValidModes(variant)

C4_ModeOnlyFromNonDominant ==
    [][ lastOp' = "onResults" /\ NoModeHand(results') =>
            interactionState'.mode = interactionState.mode ]_vars

\* A right hand came with an out-of-range left hand, and a mode set earlier
\* is still there.
C4_Witness ==
    /\ lastOp = "onResults"
    /\ HasRight(results)
    /\ NonRightIdx(results) # {}
    /\ NoModeHand(results)
    /\ interactionState.mode = 3

(***************************************************************************)
(* C5.  When the frame's non-dominant hand (the last one, if there are     *)
(* two) shows all four non-thumb fingers extended and its count is in the  *)
(* valid range, mode is that count after the call; and mode then changes   *)
(* only in a call whose frame carries a non-dominant hand showing the new, *)
(* different, in-range count.                                              *)
(***************************************************************************)
C5_FourFingersSetMode ==
    [][ /\ lastOp' = "onResults" /\ NonRightIdx(results') # {} =>
            LET i == Last(NonRightIdx(results'))
                n == fingers(variant, Hands(results')[i].landmarks)
            IN  FourExtended(Hands(results')[i].landmarks) /\ n \in ValidModes(variant)
                    => interactionState'.mode = n
        /\ interactionState'.mode # interactionState.mode =>
            /\ lastOp' = "onResults"
            /\ \E i \in NonRightIdx(results') :
                    /\ fingers(variant, Hands(results')[i].landmarks) = interactionState'.mode
                    /\ interactionState'.mode \in ValidModes(variant) ]_vars

\* The count 4 was committed and has survived a later frame without a
\* non-dominant hand.
C5_Witness ==
    /\ lastOp = "onResults"
    /\ interactionState.mode = 4
    /\ NonRightIdx(results) = {}
    /\ HasRight(results)

(***************************************************************************)
(* C6.  As stated: for a frame with one dominant hand whose four non-thumb *)
(* fingertips are all curled and whose average tip-to-mid-joint distance   *)
(* is below 0.08, the classifier stores 'fist' for every avgDist.          *)
(***************************************************************************)
CurledFist(lm) ==
    curledFingers(lm) = 4 /\ avgTipToPipDist4(lm) < 4 * 8

C6_CurledFistAnyDistance ==
    OneRight(results) /\ CurledFist(TheRight(results))
        => interactionState.rightHandAction = "fist"

(***************************************************************************)
(* C6, amended.  The same in the curl-based variants (part_002 and         *)
(* part_003); the two distance-only variants of HandTracker.js classify by *)
(* the tip-to-wrist distance alone.                                        *)
(***************************************************************************)
C6_CurledFistInCurlVariants ==
    variant \in {"curl", "thumb"} /\ OneRight(results) /\ CurledFist(TheRight(results))
        => interactionState.rightHandAction = "fist"

\* A curled hand with avgDist above openThreshold was classified a fist.
C6_Witness ==
    /\ lastOp = "onResults"
    /\ variant = "curl"
    /\ OneRight(results) /\ CurledFist(TheRight(results))
    /\ avgDist4(TheRight(results)) > 4 * 28
    /\ interactionState.rightHandAction = "fist"

(***************************************************************************)
(* C7.  As stated: for a frame with one dominant hand whose avgDist equals *)
(* fistThreshold (0.15) or openThreshold (0.28), the classifier stores     *)
(* 'neutral', for every combination of curled fingers.                     *)
(***************************************************************************)
AtThreshold(d4) == d4 = 4 * 15 \/ d4 = 4 * 28

C7_ThresholdIsNeutral ==
    OneRight(results) /\ AtThreshold(avgDist4(TheRight(results)))
        => interactionState.rightHandAction = "neutral"

(***************************************************************************)
(* C7, amended.  With avgDist equal to a threshold: the four-tip-average   *)
(* variant stores 'neutral' for every combination of curled fingers; the   *)
(* curl variant stores 'neutral' unless at least three fingers are curled  *)
(* with avgTipToPipDist < 0.08, when it stores 'fist'; the thumb-aware     *)
(* variant does the same, except that it stores 'oneFinger' in place of    *)
(* 'neutral' when only the index finger is extended.  The index-only       *)
(* variant compares the index tip's distance, and stores 'neutral' when    *)
(* that distance equals a threshold.                                       *)
(***************************************************************************)
CurlFist(lm) ==
    curledFingers(lm) >= 3 /\ avgTipToPipDist4(lm) < 4 * 8

IndexOnly(lm) ==
    /\ lm[8].y < lm[6].y
    /\ lm[12].y > lm[10].y /\ lm[16].y > lm[14].y /\ lm[20].y > lm[18].y

C7_ThresholdIsNeutralPerVariant ==
    OneRight(results) =>
        LET lm == TheRight(results)
            action == interactionState.rightHandAction
        IN  /\ variant = "avgDist" /\ AtThreshold(avgDist4(lm)) => action = "neutral"
            /\ variant = "indexDist" /\ AtThreshold(4 * Dist(lm[8], lm[0]))
                    => action = "neutral"
            /\ variant = "curl" /\ AtThreshold(avgDist4(lm)) =>
                    action = IF CurlFist(lm) THEN "fist" ELSE "neutral"
            /\ variant = "thumb" /\ AtThreshold(avgDist4(lm)) =>
                    action = IF CurlFist(lm) THEN "fist"
                             ELSE IF IndexOnly(lm) THEN "oneFinger"
                             ELSE "neutral"

\* The curl variant met avgDist = openThreshold with no finger curled.
C7_Witness ==
    /\ lastOp = "onResults"
    /\ variant = "curl"
    /\ OneRight(results)
    /\ avgDist4(TheRight(results)) = 4 * 28
    /\ curledFingers(TheRight(results)) = 0
    /\ interactionState.rightHandAction = "neutral"

(***************************************************************************)
(* C8.  As stated: rightHandAction is always one of neutral, fist, open,   *)
(* pointing, twoFingers.                                                   *)
(***************************************************************************)
C8_ActionInSpecEnum ==
    interactionState.rightHandAction \in
        {"neutral", "fist", "open", "pointing", "twoFingers"}

(***************************************************************************)
(* C8, amended.  rightHandAction is always one of neutral, fist, open,     *)
(* oneFinger, twoFingers: the index-only gesture is stored as 'oneFinger'. *)
(***************************************************************************)
C8_ActionInCodeEnum ==
    interactionState.rightHandAction \in
        {"neutral", "fist", "open", "oneFinger", "twoFingers"}

\* The index-only gesture has been classified.
C8_Witness ==
    /\ lastOp = "onResults"
    /\ OneRight(results) /\ IndexOnly(TheRight(results))
    /\ interactionState.rightHandAction = "oneFinger"

(***************************************************************************)
(* C9.  As stated: with several hands of one handedness in a frame the     *)
(* last wins: position and action are what the last 'Right' hand alone     *)
(* would produce, and mode is what processing only the last non-'Right'    *)
(* hand, from the mode held before the frame, would produce.               *)
(***************************************************************************)
Alone(res, i) ==
    processResults(variant, window, interactionState, Single(Hands(res)[i]))

C9_LastHandWins ==
    [][ lastOp' = "onResults" =>
            /\ HasRight(results') =>
                /\ interactionState'.rightHandPos =
                        Alone(results', Last(RightIdx(results'))).rightHandPos
                /\ interactionState'.rightHandAction =
                        Alone(results', Last(RightIdx(results'))).rightHandAction
            /\ interactionState'.mode =
                    IF NonRightIdx(results') = {}
                    THEN interactionState.mode
                    ELSE Alone(results', Last(NonRightIdx(results'))).mode ]_vars

(***************************************************************************)
(* C9, amended.  Position and action as stated; mode is what processing    *)
(* only the last non-'Right' hand whose finger count is in the valid range *)
(* would produce (a later hand with an out-of-range count does not undo    *)
(* it), and is unchanged when the frame has no such hand.                  *)
(***************************************************************************)
ModeIdx(res) == { i \in NonRightIdx(res) : Count(res, i) \in ValidModes(variant) }

C9_LastInRangeHandWins ==
    [][ lastOp' = "onResults" =>
            /\ HasRight(results') =>
                /\ interactionState'.rightHandPos =
                        Alone(results', Last(RightIdx(results'))).rightHandPos
                /\ interactionState'.rightHandAction =
                        Alone(results', Last(RightIdx(results'))).rightHandAction
            /\ interactionState'.mode =
                    IF ModeIdx(results') = {}
                    THEN interactionState.mode
                    ELSE Alone(results', Last(ModeIdx(results'))).mode ]_vars

\* Two non-dominant hands, the first in range and the second not: the mode
\* is the first one's count.
C9_Witness ==
    /\ lastOp = "onResults"
    /\ Cardinality(NonRightIdx(results)) = 2
    /\ Count(results, 1) = 2
    /\ Count(results, 2) \notin ValidModes(variant)
    /\ interactionState.mode = 2


(***************************************************************************)
(* C10.  When the dominant hand was absent from the frame last classified  *)
(* (rightHandPos is the sentinel), an animation frame applies no hand      *)
(* force: every particle's new velocity is its old velocity plus the       *)
(* spring term returnSpeed * (target - position) plus that frame's noise,  *)
(* times friction, and its new position is the old one plus that velocity; *)
(* and the frame's outcome is the same whichever value rightHandAction     *)
(* could hold.                                                             *)
(***************************************************************************)
ActionValues == {"neutral", "fist", "open", "pointing", "oneFinger", "twoFingers"}

SpringNoiseFriction(p, v, t, n) ==
    Vector3(MulFix(v.x + MulFix(t.x - p.x, 12) + n.x, 92),
            MulFix(v.y + MulFix(t.y - p.y, 12) + n.y, 92),
            MulFix(v.z + MulFix(t.z - p.z, 12) + n.z, 92))

HandAbsent == interactionState.rightHandPos = Sentinel

C10_NoHandForceWhenAbsent ==
    [][lastOp' = "animate" /\ HandAbsent =>
        /\ \E noise \in NoiseFields :
             \A i \in Particles :
                /\ velocities'[i] =
                      SpringNoiseFriction(currentPositions[i], velocities[i],
                                          targetPositions[i], noise[i])
                /\ currentPositions'[i].x = currentPositions[i].x + velocities'[i].x
                /\ currentPositions'[i].y = currentPositions[i].y + velocities'[i].y
                /\ currentPositions'[i].z = currentPositions[i].z + velocities'[i].z
        /\ \A a \in ActionValues, noise \in NoiseFields, i \in Particles :
                updateParticle(currentPositions[i], velocities[i], targetPositions[i],
                               noise[i], interactionState.rightHandPos, a)
              = updateParticle(currentPositions[i], velocities[i], targetPositions[i],
                               noise[i], interactionState.rightHandPos, "neutral")]_vars

\* An animation frame has run after a frame with a left hand only was
\* classified, on particles that were already moving.
C10_Witness ==
    /\ lastOp = "animate"
    /\ results.defined
    /\ ~HasRight(results)
    /\ HandAbsent
    /\ frameCount >= 2
    /\ \E i \in Particles :
          /\ velocities[i] # Vector3(0, 0, 0)
          /\ currentPositions[i] # targetPositions[i]


(***************************************************************************)
(* C11.  As stated: after every detector-result callback has been handled, *)
(* App.currentTheme is THEMES[mode] for the classifier's current mode, for *)
(* every mode the variant in use can produce.                              *)
(***************************************************************************)
C11_ThemeFollowsMode ==
    lastOp = "onResults" => currentTheme = interactionState.mode

(***************************************************************************)
(* C12.  A detector callback runs generateTextParticles exactly once when  *)
(* the selected theme changes in it, and not at all when it does not; in   *)
(* particular not at all when mode keeps its value, so a hand held in one  *)
(* pose over many frames regenerates nothing.                              *)
(***************************************************************************)
C12_RegenerateOncePerThemeChange ==
    [][ lastOp' = "onResults" =>
            /\ generateCalls' = IF currentTheme' # currentTheme THEN 1 ELSE 0
            /\ interactionState'.mode = interactionState.mode => generateCalls' = 0
      ]_vars

\* The same left-hand pose arrived in two callbacks in a row, after it had
\* changed the theme: the second one regenerated nothing.
C12_Witness ==
    /\ lastOp = "onResults"
    /\ results.defined
    /\ NonRightIdx(results) # {}
    /\ Count(results, Last(NonRightIdx(results))) = 2
    /\ currentTheme = 2
    /\ interactionState.mode = 2
    /\ generateCalls = 0


(***************************************************************************)
(* C13.  Under every interleaving of detector callbacks and render frames, *)
(* each update call reads an interaction state that is the initial one or  *)
(* the one a processResults call left on returning (the state that         *)
(* processing the last frame yields), never the state in which position    *)
(* and action are reset and the frame's hands are not yet all processed.   *)
(***************************************************************************)
CompleteState ==
    \/ results = NoResults /\ interactionState = InitialInteractionState
    \/ interactionState = processResults(variant, window, interactionState, results)

C13_UpdateReadsCompleteState ==
    [][ lastOp' = "animate" => CompleteState ]_vars

\* A render frame has run after a callback for a frame with both hands,
\* itself after an earlier render frame; the reset state of that callback
\* differed from the state it left.
C13_Witness ==
    /\ lastOp = "animate"
    /\ frameCount >= 2
    /\ HasRight(results) /\ NonRightIdx(results) # {}
    /\ interactionState # resetState(interactionState)
    /\ CompleteState

(***************************************************************************)
(* C14.  Under every interleaving of detector callbacks and render frames, *)
(* each update pass reads a targetPositions array written entirely by one  *)
(* generateTextParticles call (the last one, for the current theme's       *)
(* text), never a mix of old and new targets.                              *)
(***************************************************************************)
C14_UpdateReadsWholeTargets ==
    [][ lastOp' = "animate" =>
            /\ targetPositions = pending
            /\ targetPositions \in generateTextParticles(ThemeText(currentTheme)) ]_vars

\* A render frame has run after the targets of another theme's text were
\* written, itself after an earlier render frame.
C14_Witness ==
    /\ lastOp = "animate"
    /\ frameCount >= 2
    /\ currentTheme # 1
    /\ targetPositions = pending
    /\ targetPositions \notin generateTextParticles(ThemeText(1))

(***************************************************************************)
(* The targets generateTextParticles leaves.                               *)
(***************************************************************************)
Min(a, b) == IF a <= b THEN a ELSE b

\* The target of a particle assigned the sampled point q.
GlyphTarget(q) == Vector3(q.x, q.y, 0)

\* Every order the points of pts can be put in.
Orders(pts) ==
    { s \in [1..Len(pts) -> { pts[j] : j \in 1..Len(pts) }] :
        \A a, b \in 1..Len(pts) : a # b => s[a] # s[b] }

\* t is on the ring: radius in [500, 1000), depth in [-200, 200].
OnRing(t) ==
    LET rSq == MulFix(t.x, t.x) + MulFix(t.y, t.y)
    IN  /\ Units(500 * 500) <= rSq
        /\ rSq < Units(1000 * 1000)
        /\ -Units(200) <= t.z
        /\ t.z <= Units(200)

\* C15: after generateTextParticles(text), with M sampled points and N
\* particles, every particle has a target; the particles below min(M, N)
\* have the first min(M, N) points of some order of the sampled points,
\* at depth 0, and the points from position N on are no particle's target.
C15_EveryParticleHasATarget ==
    lastText # "" =>
        LET pts == validPoints(lastText)
            M == Len(pts)
            K == Min(M, NumParticles)
        IN  /\ DOMAIN targetPositions = 1..NumParticles
            /\ \A i \in Particles : targetPositions[i] \in [x : Int, y : Int, z : Int]
            /\ \E s \in Orders(pts) :
                    /\ \A i \in 1..K : targetPositions[i] = GlyphTarget(s[i])
                    /\ \A j \in (NumParticles + 1)..M :
                          \A i \in Particles : targetPositions[i] # GlyphTarget(s[j])

\* More points than particles, taken in an order other than the sampled one.
C15_Witness ==
    /\ lastOp = "generateTextParticles"
    /\ Len(validPoints(lastText)) > NumParticles
    /\ targetPositions[1] # GlyphTarget(validPoints(lastText)[1])
    /\ \E j \in 1..Len(validPoints(lastText)) :
          targetPositions[NumParticles] = GlyphTarget(validPoints(lastText)[j])

\* C16: with fewer sampled points than particles (M < N), the particles
\* from M on are the ones with ring targets, of radius in [500, 1000) and
\* depth in [-200, 200], and the particles below M have sampled points.
C16_RingForTheRest ==
    lastText # "" =>
        LET pts == validPoints(lastText)
            M == Len(pts)
        IN  M < NumParticles =>
                /\ \A i \in (M + 1)..NumParticles : OnRing(targetPositions[i])
                /\ \A i \in 1..M :
                      \E j \in 1..M : targetPositions[i] = GlyphTarget(pts[j])

\* One sampled point: particle 0 has it and the last particle is on the ring.
C16_Witness ==
    /\ lastOp = "generateTextParticles"
    /\ Len(validPoints(lastText)) = 1
    /\ targetPositions[1] = GlyphTarget(validPoints(lastText)[1])
    /\ OnRing(targetPositions[NumParticles])
    /\ targetPositions[NumParticles].z # 0

(***************************************************************************)
(* The colour buffer update leaves.                                        *)
(***************************************************************************)
\* The hand of st is within handInfluenceRadius of a particle at p.
HandNear(st, p) ==
    /\ st.rightHandPos.x # Units(9999)
    /\ MulFix(p.x - st.rightHandPos.x, p.x - st.rightHandPos.x)
         + MulFix(p.y - st.rightHandPos.y, p.y - st.rightHandPos.y)
         + MulFix(p.z - st.rightHandPos.z, p.z - st.rightHandPos.z)
            < Units(handInfluenceRadius * handInfluenceRadius)

\* C18: after every update, every channel of every particle in the colour
\* buffer is in [0, 1], whether or not the hand is near the particle.
C18_ChannelsInUnitRange ==
    \A k \in DOMAIN colors : 0 <= colors[k] /\ colors[k] <= 100

\* An update with the hand near one particle and away from another has
\* left a channel of the near one at 1, a channel at 0 and one in between.
C18_Witness ==
    /\ lastOp = "update"
    /\ \E i \in Particles :
          /\ HandNear(interactionState, currentPositions[i])
          /\ colors[3 * i] = 100
    /\ \E i \in Particles : ~HandNear(interactionState, currentPositions[i])
    /\ \E k \in DOMAIN colors : colors[k] = 0
    /\ \E k \in DOMAIN colors : 0 < colors[k] /\ colors[k] < 100

(***************************************************************************)
(* The arrays of the field.                                                *)
(***************************************************************************)
\* C17: after construction and any sequence of update and
\* generateTextParticles calls, currentPositions, velocities and
\* targetPositions have particleCount entries, the position and colour
\* buffers 3 * particleCount, entries 3i..3i+2 of the position buffer are
\* particle i, and an update moves particle i by its own velocity while
\* generateTextParticles leaves positions and velocities where they are.
C17_ParallelFixedArrays ==
    /\ [](/\ DOMAIN currentPositions = Particles
          /\ DOMAIN velocities = Particles
          /\ DOMAIN targetPositions = Particles
          /\ DOMAIN positions = 1..(3 * NumParticles)
          /\ DOMAIN colors = 1..(3 * NumParticles)
          /\ \A i \in Particles :
                /\ positions[3 * i - 2] = currentPositions[i].x
                /\ positions[3 * i - 1] = currentPositions[i].y
                /\ positions[3 * i] = currentPositions[i].z)
    /\ [][/\ lastOp' = "animate" =>
                \A i \in Particles :
                    /\ currentPositions'[i].x = currentPositions[i].x + velocities'[i].x
                    /\ currentPositions'[i].y = currentPositions[i].y + velocities'[i].y
                    /\ currentPositions'[i].z = currentPositions[i].z + velocities'[i].z
          /\ lastOp' # "animate" =>
                /\ currentPositions' = currentPositions
                /\ velocities' = velocities
                /\ positions' = positions]_vars

\* An update after a change of text, the particles being apart and moving
\* differently.
C17_Witness ==
    /\ lastOp = "animate"
    /\ currentTheme # 1
    /\ \A i, j \in Particles :
          i # j => /\ currentPositions[i] # currentPositions[j]
                   /\ velocities[i] # velocities[j]
                   /\ targetPositions[i] # targetPositions[j]

(***************************************************************************)
(* What the buffers depend on.                                             *)
(***************************************************************************)
\* The interaction state the tracker derives from the last detector frame
\* in a window of size w.
ClassifiedUnder(w) == processResults(variant, w, interactionState, results)

\* The buffers an update in the current frame leaves when the interaction
\* state is st and the noise of the pass is noise.
BuffersAfter(st, noise) ==
    LET next == update(getElapsedTime(frameCount), currentTheme, st, noise)
    IN  <<next.positions, next.colors>>

DistSq(q, t) ==
    MulFix(t.x - q.x, t.x - q.x) + MulFix(t.y - q.y, t.y - q.y)
        + MulFix(t.z - q.z, t.z - q.z)

\* The energy of the spring: returnSpeed * |target - position|^2 + |velocity|^2.
Energy(q, v, t) ==
    MulFix(DistSq(q, t), returnSpeed) + MulFix(v.x, v.x) + MulFix(v.y, v.y)
        + MulFix(v.z, v.z)

\* The velocity v of a particle at q points away from its target t.
MovingAway(q, v, t) ==
    MulFix(t.x - q.x, v.x) + MulFix(t.y - q.y, v.y) + MulFix(t.z - q.z, v.z) < 0

\* C19 as stated: with a stationary target, no hand and no noise, every
\* update strictly decreases |target - position| of every particle that is
\* not on its target.
C19_DistanceDecreasesEveryFrame ==
    [][lastOp' = "update" =>
        \A i \in Particles :
            DistSq(currentPositions[i], targetPositions[i]) > 0 =>
                DistSq(currentPositions'[i], targetPositions[i])
                    < DistSq(currentPositions[i], targetPositions[i])]_vars

\* C19: with a stationary target, no hand and no noise, every update
\* brings the energy returnSpeed * |target - position|^2 + |velocity|^2 of
\* a particle down to at most 96% of what it was (for an energy of 1 or
\* more, the resolution of the arithmetic), so the particle converges to
\* its target, the distance itself rising again after each pass through
\* the target.
C19_EnergyDecreasesEveryFrame ==
    [][lastOp' = "update" =>
        \A i \in Particles :
            Energy(currentPositions[i], velocities[i], targetPositions[i]) >= Units(1) =>
                Energy(currentPositions'[i], velocities'[i], targetPositions[i])
                    <= MulFix(Energy(currentPositions[i], velocities[i],
                                     targetPositions[i]), 96)]_vars

\* A particle past its target and moving away from it, its distance
\* larger than a frame before.
C19_Witness ==
    /\ lastOp = "update"
    /\ lastText # ""
    /\ updateCalls >= 6
    /\ \E i \in Particles :
          /\ MovingAway(currentPositions[i], velocities[i], targetPositions[i])
          /\ Energy(currentPositions[i], velocities[i], targetPositions[i]) >= Units(1)
          /\ DistSq(currentPositions[i], targetPositions[i])
                > DistSq(Vector3(currentPositions[i].x - velocities[i].x,
                                 currentPositions[i].y - velocities[i].y,
                                 currentPositions[i].z - velocities[i].z),
                         targetPositions[i])

(***************************************************************************)
(* Construction with an invalid particle count.                            *)
(***************************************************************************)
\* C21: constructing the field with a particle count of zero or less
\* fails: every construction that returns a field returns one with at
\* least one particle, and no update ever runs on a field without
\* particles.
C21_InvalidCountFailsAtConstruction ==
    [][/\ lastOp = "init" /\ lastOp' # "init" =>
            lastOp' = "RangeError" \/ Len(currentPositions') > 0
       /\ lastOp' = "update" => Len(currentPositions') > 0]_vars

(***************************************************************************)
(* A detector failure.                                                     *)
(***************************************************************************)
\* C22: when the detector throws for a camera frame, the error handler
\* records the failure, the interaction state and the results it was
\* classified from stay those of the last classified frame, and the render
\* loop keeps running; after a failure no handler is left running and the
\* app is still running, so that the next camera frame is sent and
\* classified and the next animation frame runs.
C22_DetectorFailureIsContained ==
    /\ [][lastOp' = "handleHandTrackingError" =>
            /\ Len(errors') = Len(errors) + 1
            /\ errors'[Len(errors')].context = "HandTracking"
            /\ interactionState' = interactionState
            /\ results' = results
            /\ interactionState.rightHandPos
                  = processResults(variant, window, interactionState, results).rightHandPos
            /\ isRunning' /\ isRunning]_vars
    /\ [](errors # << >> => EventLoopIdle /\ isRunning)

\* After a failure of the detector and an animation frame, a camera frame
\* with a fist has just been classified.
C22_Witness ==
    /\ lastOp = "onResults"
    /\ errors # << >>
    /\ HasRight(results)
    /\ interactionState.rightHandAction = "fist"
    /\ interactionState.mode = 2
    /\ frameCount >= 1

(***************************************************************************)
(* The force of the hand on a particle.                                    *)
(***************************************************************************)
\* A particle at q is inside the physics-influence radius of a hand at h.
InPhysicsRadius(q, h) ==
    /\ h.x # Units(9999)
    /\ DistSq(q, h) + Units(100) < Units(physicsInfluenceRadius)

\* The term the hand block adds to the velocity of a particle at q.
HandTerm(q, h, a) == handForce(q, Vector3(0, 0, 0), h, a)

\* CONFIG.interaction.forceMultiplier / distSq for a particle at q.
ForceMagnitude(q, h) == DivFix(Units(forceMultiplier), DistSq(q, h) + Units(100))

\* The particle-minus-hand delta scaled by forceMagnitude and by c.
ScaledDelta(q, h, c) ==
    Vector3(MulFix(MulFix(q.x - h.x, ForceMagnitude(q, h)), c),
            MulFix(MulFix(q.y - h.y, ForceMagnitude(q, h)), c),
            MulFix(MulFix(q.z - h.z, ForceMagnitude(q, h)), c))

\* On no axis does f point from the hand at h to the particle at q.
TowardHand(f, q, h) ==
    /\ f.x * (q.x - h.x) <= 0
    /\ f.y * (q.y - h.y) <= 0
    /\ f.z * (q.z - h.z) <= 0

\* On no axis does f point from the particle at q to the hand at h.
AwayFromHand(f, q, h) ==
    /\ f.x * (q.x - h.x) >= 0
    /\ f.y * (q.y - h.y) >= 0
    /\ f.z * (q.z - h.z) >= 0

\* The velocity update leaves for a particle whose hand term is f.
WithHandTerm(q, v, t, n, f) ==
    Vector3(MulFix(v.x + MulFix(t.x - q.x, returnSpeed) + n.x + f.x, friction),
            MulFix(v.y + MulFix(t.y - q.y, returnSpeed) + n.y + f.y, friction),
            MulFix(v.z + MulFix(t.z - q.z, returnSpeed) + n.z + f.z, friction))

FlowActions == ActionValues \ { "fist", "open" }

\* C23: for a particle inside the physics-influence radius of a hand whose
\* action is neither fist nor open, the term added to the velocity points
\* toward the hand.
C23_FlowAttracts ==
    [][lastOp' = "update" /\ interactionState'.rightHandAction \in FlowActions =>
        \A i \in Particles :
            InPhysicsRadius(currentPositions[i], interactionState'.rightHandPos) =>
                TowardHand(HandTerm(currentPositions[i], interactionState'.rightHandPos,
                                    interactionState'.rightHandAction),
                           currentPositions[i], interactionState'.rightHandPos)]_vars

\* The term of the one branch of the hand block that the action a selects
\* for a particle at q inside the radius of a hand at h.
BranchTerm(q, h, a) ==
    CASE a = "fist" ->
            Vector3(-ScaledDelta(q, h, 8).x + MulFix(q.y - h.y, 5),
                    -ScaledDelta(q, h, 8).y - MulFix(q.x - h.x, 5),
                    -ScaledDelta(q, h, 8).z)
      [] a = "open" ->
            Vector3(ScaledDelta(q, h, 15).x,
                    ScaledDelta(q, h, 15).y,
                    ScaledDelta(q, h, 15).z + Units(2))
      [] OTHER -> ScaledDelta(q, h, 2)

\* C24: for a particle inside the physics-influence radius of a present
\* hand, the velocity gets the term of exactly one branch, selected by
\* rightHandAction alone: fist subtracts the scaled delta and adds the
\* swirl, open adds the scaled delta and 2 on the depth axis; a particle
\* outside the radius gets no hand term.
C24_OneBranchByAction ==
    [][lastOp' = "update" =>
        \A i \in Particles :
            LET q == currentPositions[i]
                h == interactionState'.rightHandPos
                f == IF InPhysicsRadius(q, h)
                     THEN BranchTerm(q, h, interactionState'.rightHandAction)
                     ELSE Vector3(0, 0, 0)
            IN  /\ h.x # Units(9999) =>
                        f = HandTerm(q, h, interactionState'.rightHandAction)
                /\ \E noise \in NoiseFields :
                        velocities'[i] = WithHandTerm(q, velocities[i], targetPositions[i],
                                                      noise[i], f)]_vars

\* The first update, with a fist beside one particle and far from another,
\* has pulled and swirled the first and left the other to its spring.
C24_Witness ==
    /\ lastOp = "update"
    /\ updateCalls = 1
    /\ interactionState.rightHandAction = "fist"
    /\ \E i, j \in Particles, init \in InitialPositions, noise \in NoiseFields :
          /\ InPhysicsRadius(init[i], interactionState.rightHandPos)
          /\ ~InPhysicsRadius(init[j], interactionState.rightHandPos)
          /\ BranchTerm(init[i], interactionState.rightHandPos, "fist").x
                # -ScaledDelta(init[i], interactionState.rightHandPos, 8).x
          /\ velocities[i] = WithHandTerm(init[i], Vector3(0, 0, 0), targetPositions[i],
                                          noise[i],
                                          BranchTerm(init[i], interactionState.rightHandPos,
                                                     "fist"))
          /\ velocities[j] = SpringNoiseFriction(init[j], Vector3(0, 0, 0),
                                                 targetPositions[j], noise[j])
          /\ currentPositions[i] = Vector3(init[i].x + velocities[i].x,
                                           init[i].y + velocities[i].y,
                                           init[i].z + velocities[i].z)

(***************************************************************************)
(* The open hand.                                                          *)
(***************************************************************************)
\* The condition under which the variant v stores 'fist' for the hand lm.
FistCondition(v, lm) ==
    CASE v = "avgDist" -> avgDist4(lm) < 4 * fistThreshold
      [] v = "indexDist" -> Dist(lm[8], lm[0]) < fistThreshold
      [] OTHER -> isFist(curledFingers(lm), avgTipToPipDist4(lm), avgDist4(lm))

\* At most one of the four fingers curled and avgDist above openThreshold.
OpenHand(lm) == curledFingers(lm) <= 1 /\ avgDist4(lm) > 4 * openThreshold

\* C25 as stated: for a frame with one dominant hand that is no fist, has
\* at most one curled finger and avgDist above openThreshold, the
\* classifier stores 'open', in every variant.
C25_OpenHandIsOpen ==
    (/\ OneRight(results)
     /\ ~FistCondition(variant, TheRight(results))
     /\ OpenHand(TheRight(results)))
        => interactionState.rightHandAction = "open"

\* C25: the same in the curl variant (part_002) and the average-distance
\* variant of HandTracker.js; the variant of part_003 has no 'open' and
\* stores 'neutral' for such a hand, and the index-distance variant stores
\* 'open' exactly when the index tip is farther than openThreshold from
\* the wrist.
C25_OpenHandIsOpenWhereStored ==
    (/\ OneRight(results)
     /\ ~FistCondition(variant, TheRight(results))
     /\ OpenHand(TheRight(results)))
        => /\ variant \in {"avgDist", "curl"} => interactionState.rightHandAction = "open"
           /\ variant = "thumb" => interactionState.rightHandAction = "neutral"
           /\ variant = "indexDist" =>
                (interactionState.rightHandAction = "open"
                    <=> Dist(TheRight(results)[8], TheRight(results)[0]) > openThreshold)

\* A hand with one finger curled and the tips far from the wrist was
\* classified open by the curl variant.
C25_Witness ==
    /\ lastOp = "onResults"
    /\ variant = "curl"
    /\ OneRight(results)
    /\ curledFingers(TheRight(results)) = 1
    /\ avgDist4(TheRight(results)) > 4 * openThreshold
    /\ interactionState.rightHandAction = "open"

(***************************************************************************)
(* The order of the tests in the richer classifier.                        *)
(***************************************************************************)
\* The three conditions of part_003 for the hand lm.
FistHolds(lm) == isFist(curledFingers(lm), avgTipToPipDist4(lm), avgDist4(lm))

TwoFingersHolds(lm) == isTwoFingers(curledFingers(lm), avgDist4(lm))

OneFingerHolds(lm) == isOneFinger(curledFingers(lm), lm)

\* C26: in the variant of part_003 the action of the frame's dominant hand
\* is decided in the order fist, two fingers, one finger, neutral: fist
\* whenever the fist condition holds, whatever the other two conditions
\* are, then 'twoFingers', then 'oneFinger', else 'neutral'; one action is
\* stored per frame.
C26_FistTwoOneNeutral ==
    variant = "thumb" /\ OneRight(results) =>
        LET lm == TheRight(results)
        IN  /\ FistHolds(lm) => interactionState.rightHandAction = "fist"
            /\ ~FistHolds(lm) /\ TwoFingersHolds(lm) =>
                    interactionState.rightHandAction = "twoFingers"
            /\ ~FistHolds(lm) /\ ~TwoFingersHolds(lm) /\ OneFingerHolds(lm) =>
                    interactionState.rightHandAction = "oneFinger"
            /\ ~FistHolds(lm) /\ ~TwoFingersHolds(lm) /\ ~OneFingerHolds(lm) =>
                    interactionState.rightHandAction = "neutral"
            /\ interactionState.rightHandAction
                    \in {"fist", "twoFingers", "oneFinger", "neutral"}

\* A hand that meets the fist condition and the one-finger condition was
\* classified a fist.
C26_Witness ==
    /\ lastOp = "onResults"
    /\ variant = "thumb"
    /\ OneRight(results)
    /\ FistHolds(TheRight(results))
    /\ OneFingerHolds(TheRight(results))
    /\ interactionState.rightHandAction = "fist"

(***************************************************************************)
(* What a processResults call reads of the state it finds.                 *)
(***************************************************************************)
\* Actions and positions a call may find in the state: a fist to the right
\* of the centre, an open hand at the centre.
PriorHands ==
    { [rightHandPos |-> Vector3(Units(240), Units(-120), 0), rightHandAction |-> "fist"],
      [rightHandPos |-> Vector3(0, 0, 0), rightHandAction |-> "open"] }

\* The state st with the action and the position of h.
Holding(st, h) ==
    [st EXCEPT !.rightHandPos = h.rightHandPos, !.rightHandAction = h.rightHandAction]

\* C27: the action and the position a processResults call leaves depend on
\* the frame of the call and the screen size only: a classifier that held
\* another action and position before the call ends the call on the same
\* frame with the same action and the same position.
C27_ActionAndPositionFromFrameOnly ==
    [][lastOp' = "onResults" =>
          \A h \in PriorHands :
              LET st1 == processResults(variant, window, Holding(interactionState, h),
                                        results')
              IN  /\ st1.rightHandAction = interactionState'.rightHandAction
                  /\ st1.rightHandPos = interactionState'.rightHandPos]_vars

\* A frame with a left hand only has been processed by a classifier that
\* had taken a mode from an earlier frame: no action or position is left.
C27_Witness ==
    /\ lastOp = "onResults"
    /\ results.defined
    /\ results.hands # << >>
    /\ ~HasRight(results)
    /\ interactionState.mode >= 2
    /\ interactionState.rightHandAction = "neutral"
    /\ interactionState.rightHandPos = Sentinel

(***************************************************************************)
(* What an animation frame leaves alone.                                   *)
(***************************************************************************)
\* C28: update only reads its inputs: an animation frame leaves the mode,
\* the hand position and the action of the interaction state, the theme
\* with its colours and every particle's target as they were; the
\* interaction state changes in the detector's callback only.
C28_UpdateIsAPureReader ==
    [][/\ lastOp' = "animate" =>
              /\ interactionState'.mode = interactionState.mode
              /\ interactionState'.rightHandPos = interactionState.rightHandPos
              /\ interactionState'.rightHandAction = interactionState.rightHandAction
              /\ currentTheme' = currentTheme
              /\ ThemeColors(currentTheme') = ThemeColors(currentTheme)
              /\ targetPositions' = targetPositions
       /\ interactionState' # interactionState => lastOp' = "onResults"]_vars

\* A frame has moved the particles under a fist of the second theme, and
\* the fist, its position and the mode are still in the state.
C28_Witness ==
    /\ lastOp = "animate"
    /\ HasRight(results)
    /\ interactionState.rightHandAction = "fist"
    /\ interactionState.rightHandPos # Sentinel
    /\ interactionState.mode = 2
    /\ currentTheme = 2
    /\ \E i \in Particles : velocities[i] # Vector3(0, 0, 0)

(***************************************************************************)
(* One update of a particle with the hand absent.                          *)
(***************************************************************************)
\* C29: in an update with the hand absent there is a noise n of the pass
\* such that, for every particle i, the new velocity is
\* (v + (target - p) * returnSpeed + n) * friction, the friction applied
\* once to the whole sum, the new position is p plus that new velocity,
\* and the three slots of particle i in the position buffer hold the new
\* position; the elapsed time takes no part in either.
C29_SpringNoiseThenFrictionThenMove ==
    [][lastOp' = "update" /\ interactionState'.rightHandPos = Sentinel =>
          \E noise \in NoiseFields :
              \A i \in Particles :
                  LET v1 == SpringNoiseFriction(currentPositions[i], velocities[i],
                                                targetPositions[i], noise[i])
                      p1 == Vector3(currentPositions[i].x + v1.x,
                                    currentPositions[i].y + v1.y,
                                    currentPositions[i].z + v1.z)
                  IN  /\ velocities'[i] = v1
                      /\ currentPositions'[i] = p1
                      /\ positions'[3 * (i - 1) + 1] = p1.x
                      /\ positions'[3 * (i - 1) + 2] = p1.y
                      /\ positions'[3 * (i - 1) + 3] = p1.z]_vars

\* A second update with the hand absent has run on particles that the
\* first had set moving, and they are still away from their targets.
C29_Witness ==
    /\ lastOp = "update"
    /\ updateCalls >= 2
    /\ interactionState.rightHandPos = Sentinel
    /\ \A i \in Particles :
          /\ velocities[i] # Vector3(0, 0, 0)
          /\ currentPositions[i] # targetPositions[i]
          /\ positions[3 * (i - 1) + 1] = currentPositions[i].x

(***************************************************************************)
(* The hand position, from landmark 9 and the screen size.                 *)
(***************************************************************************)
\* C30: a frame with a dominant hand leaves rightHandPos at
\* x = (1 - lx) * W - W / 2, y = -(ly * H - H / 2), z = 0, for landmark 9
\* at (lx, ly) and a screen of W by H: a hand in the left half of the image
\* lands right of the origin and one in the right half left of it, a hand
\* in the lower half of the image lands below the origin and one in the
\* upper half above it, and the image centre lands on the origin.
C30_PositionFromLandmark9 ==
    [][lastOp' = "onResults" /\ HasRight(results') =>
          LET l9 == TheRight(results')[9]
              W == window'.innerWidth
              H == window'.innerHeight
              pos == interactionState'.rightHandPos
          IN  /\ pos.x = (100 - l9.x) * W - 50 * W
              /\ pos.y = -(l9.y * H - 50 * H)
              /\ pos.z = 0
              /\ (l9.x < 50 <=> pos.x > 0) /\ (l9.x > 50 <=> pos.x < 0)
              /\ (l9.y < 50 <=> pos.y > 0) /\ (l9.y > 50 <=> pos.y < 0)
              /\ (l9 = Pt(50, 50) <=> pos = Vector3(0, 0, 0))]_vars

\* A hand at (0.2, 0.7) of the image on a screen of 800 by 600 was placed
\* at (240, -120, 0): right of the origin and below it.
C30_Witness ==
    /\ lastOp = "onResults"
    /\ window = [innerWidth |-> 800, innerHeight |-> 600]
    /\ HasRight(results)
    /\ TheRight(results)[9] = Pt(20, 70)
    /\ interactionState.rightHandPos = Vector3(Units(240), Units(-120), 0)

(***************************************************************************)
(* The shuffle of the sampled points.                                      *)
(***************************************************************************)
\* The particles whose target is the sampled point q.
ParticlesAt(q) == { i \in Particles : targetPositions[i] = GlyphTarget(q) }

\* C31: the shuffle before the targets are set is a permutation of the
\* sampled points: no point is the target of two particles, and with at
\* most as many points as particles (M <= N) every sampled point is the
\* target of exactly one particle.
C31_ShuffleIsAPermutation ==
    lastText # "" =>
        LET pts == validPoints(lastText)
            M == Len(pts)
        IN  /\ \A j \in 1..M : Cardinality(ParticlesAt(pts[j])) <= 1
            /\ M <= NumParticles =>
                    /\ \A j \in 1..M : Cardinality(ParticlesAt(pts[j])) = 1
                    /\ \A j \in 1..M : ParticlesAt(pts[j]) \subseteq 1..M

\* Two sampled points went to the first two particles in the order opposite
\* to the sampled one.
C31_Witness ==
    /\ lastOp = "generateTextParticles"
    /\ Len(validPoints(lastText)) = 2
    /\ targetPositions[1] = GlyphTarget(validPoints(lastText)[2])
    /\ targetPositions[2] = GlyphTarget(validPoints(lastText)[1])

(***************************************************************************)
(* The animation loop under start() and stop().                            *)
(***************************************************************************)
\* C32: whatever the order of start(), stop() and animation frames, at most
\* one frame request is pending, and none while the application is
\* stopped; start() on a running application changes nothing, stop()
\* leaves no request pending, and an update pass runs only in a handler in
\* which isRunning is true.
C32_OneFramePendingNoUpdateWhenStopped ==
    /\ [](Cardinality(frameRequests) <= 1)
    /\ [](~isRunning => frameRequests = {})
    /\ [][/\ lastOp' = "start" /\ isRunning =>
                 UNCHANGED <<isRunning, animationFrameId, frameRequests, updateCalls,
                             fieldVars>>
          /\ lastOp' = "stop" => ~isRunning' /\ frameRequests' = {}
          /\ updateCalls' # updateCalls => isRunning']_vars

\* The application was stopped with a frame pending and started again: it
\* runs with the one frame of the second start pending.
C32_Witness ==
    /\ lastOp = "start"
    /\ isRunning
    /\ animationFrameId = 2
    /\ frameRequests = {2}
    /\ updateCalls = 1

(***************************************************************************)
(* The frame-time history and the frame rate of the monitor.               *)
(***************************************************************************)
\* The last n entries of the sequence ts, all of them when it has fewer.
LastN(ts, n) == IF Len(ts) <= n THEN ts ELSE SubSeq(ts, Len(ts) - n + 1, Len(ts))

\* The history holds at most 60 deltas, the most recent ones, and the
\* average of an empty history is 0.
FrameTimesAreTheLatest ==
    /\ [](Len(frameTimes) <= 60)
    /\ [](Len(frameTimes) = IF frameCount < 60 THEN frameCount ELSE 60)
    /\ [](frameTimes = << >> => getAverageFrameTime = 0)
    /\ [](frameTimes # << >> => getAverageFrameTime >= 1600)
    /\ [][lastOp' = "monitorUpdate" =>
              frameTimes' = LastN(Append(frameTimes, now' - lastTime), 60)]_vars

\* C36 as stated: after any updates and resets frameTimes holds at most 60
\* entries, the most recent deltas, getAverageFrameTime is 0 for an empty
\* history, and fps changes only in an update whose frameCount is a
\* multiple of 60.
C36_FpsOnlyOnSixtiethUpdate ==
    /\ FrameTimesAreTheLatest
    /\ [][fps' # fps => lastOp' = "monitorUpdate" /\ frameCount' % 60 = 0]_vars

\* C36, amended: as above, except that fps changes either in an update whose
\* frameCount, counted from the last reset, is a multiple of 60, or in a
\* reset, which sets it to 0.
C36_FpsOnSixtiethUpdateOrReset ==
    /\ FrameTimesAreTheLatest
    /\ [][fps' # fps =>
              \/ lastOp' = "monitorUpdate" /\ frameCount' % 60 = 0
              \/ lastOp' = "reset" /\ fps' = 0]_vars
    /\ [][lastOp' = "reset" =>
              fps' = 0 /\ frameCount' = 0 /\ frameTimes' = << >>]_vars

\* The 120th update since the last reset has set the rate from a full
\* history of 60 deltas, the oldest 60 dropped.
C36_Witness ==
    /\ lastOp = "monitorUpdate"
    /\ frameCount = 120
    /\ Len(frameTimes) = 60
    /\ fps = RoundDiv(1000 * 60, SumOf(frameTimes))
    /\ fps < 59

(***************************************************************************)
(* The error list under log() and clearErrors().                           *)
(***************************************************************************)
\* C35: after any log and clearErrors calls the list holds at most maxErrors
\* (50) entries: a log appends its entry and, past 50, drops the oldest,
\* clearErrors empties the list, and so the list is always the latest
\* entries logged since the last clear, oldest first.
C35_LatestFiftyInOrder ==
    /\ [](Len(getErrors) <= 50)
    /\ [](\A i \in 1..Len(getErrors) :
              getErrors[i].timestamp = now - Len(getErrors) + i)
    /\ [][lastOp' = "log" =>
              /\ errors'[Len(errors')].timestamp = now'
              /\ errors' = LastN(Append(errors, errors'[Len(errors')]), 50)]_vars
    /\ [][lastOp' = "clearErrors" => errors' = << >>]_vars

\* The 52nd entry has been logged without a clear since the first: the
\* list holds the entries from the third on.
C35_Witness ==
    /\ lastOp = "log"
    /\ now = 52
    /\ Len(errors) = 50
    /\ errors[1].timestamp = 3
    /\ errors[50].timestamp = 52

(***************************************************************************)
(* A failed setup of the detector or the camera.                           *)
(***************************************************************************)
\* The setup of the detector or of the camera has failed.
TrackerSetupFailed == setup \in {"handsFailed", "cameraFailed", "startFailed"}

\* C33: HandTracker.init and App.init resolve and never reject; when the
\* setup of the detector or of the camera fails both resolve to false,
\* the failure is in the tracker's error list and in the App's under
\* 'App.init', and the loop is not started: isRunning stays false, no
\* frame is requested and no update runs.
C33_FailedSetupResolvesFalse ==
    /\ initResult.handTracker \in {"pending", "true", "false"}
    /\ initResult.app \in {"pending", "true", "false"}
    /\ TrackerSetupFailed =>
            /\ initResult = [handTracker |-> "false", app |-> "false"]
            /\ errors # << >>
            /\ errors[Len(errors)].context = "HandTracking"
            /\ appErrors # << >>
            /\ appErrors[Len(appErrors)].context = "App.init"
            /\ ~isRunning
            /\ animationFrameId = 0 /\ frameRequests = {}
            /\ updateCalls = 0 /\ frameCount = 0

\* camera.start() was rejected after the particle field was built: the
\* camera error and the tracker error are logged and init returned false.
C33_Witness ==
    /\ lastOp = "App.init"
    /\ setup = "startFailed"
    /\ initResult = [handTracker |-> "false", app |-> "false"]
    /\ Len(errors) = 2
    /\ errors[1].context = "Camera"
    /\ Len(targetPositions) = NumParticles
    /\ ~isRunning

(***************************************************************************)
(* Fist and open in the curl-based classifier.                             *)
(***************************************************************************)
\* The open condition of part_002 for the hand lm.
OpenHolds(lm) == isOpen(curledFingers(lm), avgDist4(lm))

\* The action of part_002 with the open test taken before the fist test.
OpenTestedFirst(lm) ==
    IF OpenHolds(lm) THEN "open" ELSE IF FistHolds(lm) THEN "fist" ELSE "neutral"

\* C34: in the curl-based classifier, fistThreshold being below
\* openThreshold, no hand meets the fist condition and the open condition
\* together, and the action stored is the one the two tests give in
\* either order.
C34_FistAndOpenExclusive ==
    /\ fistThreshold < openThreshold
    /\ variant = "curl" /\ OneRight(results) =>
            LET lm == TheRight(results)
            IN  /\ ~(FistHolds(lm) /\ OpenHolds(lm))
                /\ interactionState.rightHandAction = OpenTestedFirst(lm)
                /\ interactionState.rightHandAction = "fist" <=> FistHolds(lm)
                /\ interactionState.rightHandAction = "open" <=> OpenHolds(lm)

\* A fist by its curled fingers, its tips farther from the wrist than
\* openThreshold: the distance part of the open condition holds, the open
\* condition does not.
C34_Witness ==
    /\ lastOp = "onResults"
    /\ variant = "curl"
    /\ OneRight(results)
    /\ avgDist4(TheRight(results)) > 4 * openThreshold
    /\ curledFingers(TheRight(results)) >= 3
    /\ FistHolds(TheRight(results))
    /\ ~OpenHolds(TheRight(results))
    /\ interactionState.rightHandAction = "fist"

====
